---- MODULE Spec2Model ----
(***************************************************************************)
(* A model of the CueMap engine (cuemap-dev/engine): the Memory Store and  *)
(* the inverted Cue Index (src/src/engine.rs, src/src/structures.rs), the  *)
(* ranker, the alias expansion of a Project (src/src/projects.rs) and the  *)
(* snapshot persistence (src/src/persistence.rs, src/src/main.rs).         *)
(*                                                                         *)
(* Strings are sequences of characters; a "character" is a one-character   *)
(* string or a lower-case, blank-free chunk such as "from:".  Floating     *)
(* point values are fixed-point integers in thousandths.                   *)
(***************************************************************************)
EXTENDS Integers, Sequences, FiniteSets, TLC

VARIABLES
    main,         \* ProjectContext.main: the Project's engine
    aliases,      \* ProjectContext.aliases: the Alias Registry engine
    lexicon,      \* ProjectContext.lexicon: the Lexicon engine
    uuid_seq,     \* number of ids minted by Uuid::new_v4 so far
    clock,        \* SystemTime::now(); the runs followed last less than a tick
    last_recall,  \* the arguments and the result of the last call, if a recall
    last_expand,  \* the arguments and the result of the last expand_query_cues
    steps,        \* number of operations performed so far
    mode,         \* "single" or "multi": the --multi-tenant flag of main
    proc,         \* "running" or "down": whether the server process is alive
    tick,         \* flips each time a snapshot interval elapses
    disk,         \* the data directory: [names, inodes]
    task,         \* the snapshot task and the shutdown handler: [pc, data, fd, off]
    load_report,  \* what the last start-up load reported
    projects,     \* MultiTenantEngine.projects: the ids of the projects it holds
    signal,       \* the signal the process received, "none" before any
    last_call,    \* the last call of an operation: arguments, states, return value
    reinforce_calls, \* per memory id, the reinforce calls that returned true
    callers,      \* the threads that are inside a call: thread -> its position
    queue,        \* the buffer of the JobQueue's channel, oldest job first
    worker,       \* the task of JobQueue::new that processes the jobs
    query_cache,  \* ProjectContext.query_cache: normalized text -> cues
    read_only,    \* whether the server was started with --load-static
    file_hashes,  \* Ingester.file_hashes: path -> hash of the content last seen
    tenants,      \* MultiTenantEngine.projects, each Arc with what it points to
    job_log       \* the jobs the channel accepted and the jobs the task received

vars == <<main, aliases, lexicon, uuid_seq, clock, last_recall, last_expand,
          steps, mode, proc, tick, disk, task, load_report, projects, signal,
          last_call, reinforce_calls, callers, queue, worker, query_cache,
          read_only,file_hashes,tenants,job_log>>

\* the Project and what its callers last saw
project_vars == <<main, aliases, lexicon, uuid_seq, clock, last_recall,
                  last_expand, steps>>

\* the process and its data directory
process_vars == <<mode, proc, tick, disk, task, load_report, projects, signal>>

\* the calls in progress, the job queue and the request surface
service_vars == <<last_call, reinforce_calls, callers, queue, worker,
                  query_cache, read_only,file_hashes,tenants,job_log>>

----------------------------------------------------------------------------
(* Bounds of the model.                                                    *)

\* the engine operations of Spec are followed for MaxOps operations
MaxOps == 3
\* SpecSnap adds at most MaxSnapAdds memories
MaxSnapAdds == 2
\* SpecRecall is followed for MaxRecallOps operations
MaxRecallOps == 4
\* SpecRank adds at most MaxRankAdds memories and reinforces MaxRankReinforces
\* times
MaxRankAdds == 4
MaxRankReinforces == 3
\* SpecAlias registers at most MaxAliases aliases and expands MaxExpands times
MaxAliases == 2
MaxExpands == 2

----------------------------------------------------------------------------
(* Strings.                                                                *)

\* char::to_lowercase on the alphabet of the model
LowerChar(ch) ==
    CASE ch = "A" -> "a"
      [] ch = "B" -> "b"
      [] OTHER -> ch

\* char::is_whitespace on the alphabet of the model
IsWhitespace(ch) == ch = " "

\* str::to_lowercase
to_lowercase(s) == [i \in 1..Len(s) |-> LowerChar(s[i])]

RECURSIVE trim_start(_)
trim_start(s) ==
    IF s # <<>> /\ IsWhitespace(Head(s)) THEN trim_start(Tail(s)) ELSE s

RECURSIVE trim_end(_)
trim_end(s) ==
    IF s # <<>> /\ IsWhitespace(s[Len(s)])
    THEN trim_end(SubSeq(s, 1, Len(s) - 1))
    ELSE s

\* str::trim
trim(s) == trim_end(trim_start(s))

\* cue.to_lowercase().trim().to_string(): the key a cue is indexed under
cue_lower(cue) == trim(to_lowercase(cue))

----------------------------------------------------------------------------
(* Sequences.                                                              *)

Range(s) == {s[i] : i \in 1..Len(s)}

Reverse(s) == [i \in 1..Len(s) |-> s[Len(s) + 1 - i]]

\* Vec::contains
Contains(s, x) == \E i \in 1..Len(s) : s[i] = x

RECURSIVE Without(_, _)
Without(s, x) ==
    IF s = <<>> THEN <<>>
    ELSE IF Head(s) = x THEN Without(Tail(s), x)
    ELSE <<Head(s)>> \o Without(Tail(s), x)

\* Iterator::take
Take(s, n) == SubSeq(s, 1, IF n < Len(s) THEN n ELSE Len(s))

Min(a, b) == IF a < b THEN a ELSE b

----------------------------------------------------------------------------
(* OrderedSet (src/src/structures.rs): a sequence of ids without           *)
(* duplicates, oldest first; the tail is the most recent position.         *)

OrderedSet_new == <<>>

\* an add without the shift_remove: the item is appended as it comes
OrderedSet_add_appending(items, item) == Append(items, item)

\* OrderedSet::add: shift_remove, then insert at the end
OrderedSet_add(items, item) == Append(Without(items, item), item)

\* a move_to_front that moves a present item to the oldest position
OrderedSet_move_to_front_oldest(items, item) ==
    IF Contains(items, item) THEN <<item>> \o Without(items, item) ELSE items

\* a move_to_front that appends the item whether or not it is present
OrderedSet_move_to_front_always(items, item) == Append(Without(items, item), item)

\* a move_to_front that removes with swap_remove: the last item takes the
\* place of the removed one before the item is inserted at the end
OrderedSet_move_to_front_swap_remove(items, item) ==
    IF ~Contains(items, item) THEN items
    ELSE IF items[Len(items)] = item THEN items
    ELSE LET i == CHOOSE j \in 1..Len(items) : items[j] = item
             swapped == [j \in 1..(Len(items) - 1) |->
                            IF j = i THEN items[Len(items)] ELSE items[j]]
         IN  Append(swapped, item)

\* OrderedSet::move_to_front: only an item that is present moves to the end
OrderedSet_move_to_front(items, item) ==
    IF Contains(items, item) THEN Append(Without(items, item), item) ELSE items

\* OrderedSet::remove: shift_remove keeps the order of the rest
OrderedSet_remove(items, item) == Without(items, item)

\* OrderedSet::get_recent / get_recent_owned: most recent first;
\* limit is <<>> for None and <<n>> for Some(n)
\* get_recent without the reversal: the oldest ids first
OrderedSet_get_recent_oldest_first(items, limit) ==
    IF limit = <<>> THEN items ELSE Take(items, limit[1])

OrderedSet_get_recent(items, limit) ==
    IF limit = <<>> THEN Reverse(items) ELSE Take(Reverse(items), limit[1])

OrderedSet_len(items) == Len(items)

\* OrderedSet::get_index_of: the 0-based index from the oldest end;
\* <<>> for None and <<i>> for Some(i)
OrderedSet_get_index_of(items, item) ==
    IF Contains(items, item)
    THEN <<(CHOOSE i \in 1..Len(items) : items[i] = item) - 1>>
    ELSE <<>>

----------------------------------------------------------------------------
(* Maps (DashMap): functions with a finite domain.                         *)

EmptyMap == <<>>

Put(m, k, v) == [x \in DOMAIN m \cup {k} |-> IF x = k THEN v ELSE m[x]]

Remove(m, k) == [x \in DOMAIN m \ {k} |-> m[x]]

----------------------------------------------------------------------------
(* Memory (src/src/structures.rs).                                         *)

\* Memory::new, with the id the caller gets from Uuid::new_v4
Memory_new(id, content, metadata, now) ==
    [id |-> id, content |-> content, created_at |-> now, last_accessed |-> now,
     metadata |-> metadata, cues |-> <<>>, reinforcement_count |-> 0]

\* Memory::touch: the last access is now
touch_last_accessed(m, now) == [m EXCEPT !.last_accessed = now]

\* the reinforcement counter of a touched memory
count_reinforcement(m) == [m EXCEPT !.reinforcement_count = @ + 1]

\* memory.touch() as reinforce_memory uses it
touch(m, now) == count_reinforcement(touch_last_accessed(m, now))

----------------------------------------------------------------------------
(* CueMapEngine (src/src/engine.rs).  An engine is a record                *)
(* [memories, cue_index]; an operation returns the engine after it and     *)
(* its return value.                                                       *)

CueMapEngine_new == [memories |-> EmptyMap, cue_index |-> EmptyMap]

\* self.cue_index.entry(cue_lower).or_insert_with(OrderedSet::new)
entry_or_insert(cue_index, key) ==
    IF key \in DOMAIN cue_index THEN cue_index
    ELSE Put(cue_index, key, OrderedSet_new)

\* "Index by cues": for each cue, append id to the set of its lower-cased,
\* trimmed form; empty cues are skipped
RECURSIVE index_by_cues(_, _, _)
index_by_cues(cue_index, id, cues) ==
    IF cues = <<>> THEN cue_index
    ELSE LET key == cue_lower(Head(cues))
             ci  == IF key # <<>>
                    THEN LET e == entry_or_insert(cue_index, key)
                         IN  [e EXCEPT ![key] = OrderedSet_add(@, id)]
                    ELSE cue_index
         IN  index_by_cues(ci, id, Tail(cues))

\* CueMapEngine::add_memory
add_memory(e, id, content, cues, metadata, now) ==
    LET memory == [Memory_new(id, content, metadata, now) EXCEPT !.cues = cues]
    IN  [e |-> [memories  |-> Put(e.memories, id, memory),
                cue_index |-> index_by_cues(e.cue_index, id, cues)],
         r |-> id]

\* "Move to front for each cue": the entry is created when absent
RECURSIVE move_to_front_each(_, _, _)
move_to_front_each(cue_index, id, cues) ==
    IF cues = <<>> THEN cue_index
    ELSE LET key == cue_lower(Head(cues))
             ci  == IF key # <<>>
                    THEN LET e == entry_or_insert(cue_index, key)
                         IN  [e EXCEPT ![key] = OrderedSet_move_to_front(@, id)]
                    ELSE cue_index
         IN  move_to_front_each(ci, id, Tail(cues))

\* CueMapEngine::reinforce_memory
reinforce_memory(e, id, cues, now) ==
    IF id \in DOMAIN e.memories
    THEN [e |-> [memories  |-> [e.memories EXCEPT ![id] = touch(@, now)],
                 cue_index |-> move_to_front_each(e.cue_index, id, cues)],
          r |-> TRUE]
    ELSE [e |-> e, r |-> FALSE]

\* a removal that looks the cues up as stored, not lower-cased and trimmed
RECURSIVE remove_from_each_as_stored(_, _, _)
remove_from_each_as_stored(cue_index, id, cues) ==
    IF cues = <<>> THEN cue_index
    ELSE LET key == Head(cues)
             ci  == IF key \in DOMAIN cue_index
                    THEN [cue_index EXCEPT ![key] = OrderedSet_remove(@, id)]
                    ELSE cue_index
         IN  remove_from_each_as_stored(ci, id, Tail(cues))

\* "Remove from cue index": only from the entries that exist
RECURSIVE remove_from_each(_, _, _)
remove_from_each(cue_index, id, cues) ==
    IF cues = <<>> THEN cue_index
    ELSE LET key == cue_lower(Head(cues))
             ci  == IF key \in DOMAIN cue_index
                    THEN [cue_index EXCEPT ![key] = OrderedSet_remove(@, id)]
                    ELSE cue_index
         IN  remove_from_each(ci, id, Tail(cues))

\* CueMapEngine::delete_memory
delete_memory(e, id) ==
    IF id \in DOMAIN e.memories
    THEN [e |-> [memories  |-> Remove(e.memories, id),
                 cue_index |-> remove_from_each(e.cue_index, id,
                                                e.memories[id].cues)],
          r |-> TRUE]
    ELSE [e |-> e, r |-> FALSE]

\* attach_cues step 2: the cues of the argument the memory does not carry
\* (compared as given, against the memory's cues before the call)
RECURSIVE new_cues_of(_, _)
new_cues_of(memory_cues, cues) ==
    IF cues = <<>> THEN <<>>
    ELSE IF ~Contains(memory_cues, Head(cues))
         THEN <<Head(cues)>> \o new_cues_of(memory_cues, Tail(cues))
         ELSE new_cues_of(memory_cues, Tail(cues))

\* CueMapEngine::attach_cues
attach_cues(e, id, cues) ==
    IF id \in DOMAIN e.memories
    THEN LET new_cues == new_cues_of(e.memories[id].cues, cues)
         IN  IF new_cues = <<>> THEN [e |-> e, r |-> FALSE]
             ELSE [e |-> [memories  |-> [e.memories EXCEPT
                                            ![id].cues = @ \o new_cues],
                          cue_index |-> index_by_cues(e.cue_index, id, new_cues)],
                   r |-> TRUE]
    ELSE [e |-> e, r |-> FALSE]

\* an upsert that stores the content it is given in a present memory
upsert_memory_with_id_overwriting(e, id, content, cues, metadata, reinforce, now) ==
    IF id \in DOMAIN e.memories
    THEN LET attached == attach_cues(e, id, cues).e
             done == IF reinforce
                     THEN reinforce_memory(attached, id, cues, now).e
                     ELSE attached
         IN  [e |-> [done EXCEPT !.memories[id].content = content], r |-> id]
    ELSE LET memory == [Memory_new(id, content, metadata, now) EXCEPT !.cues = cues]
         IN  [e |-> [memories  |-> Put(e.memories, id, memory),
                     cue_index |-> index_by_cues(e.cue_index, id, cues)],
              r |-> id]

\* an upsert that reinforces a present memory whatever the flag says
upsert_memory_with_id_reinforcing(e, id, content, cues, metadata, reinforce, now) ==
    IF id \in DOMAIN e.memories
    THEN [e |-> reinforce_memory(attach_cues(e, id, cues).e, id, cues, now).e,
          r |-> id]
    ELSE LET memory == [Memory_new(id, content, metadata, now) EXCEPT !.cues = cues]
         IN  [e |-> [memories  |-> Put(e.memories, id, memory),
                     cue_index |-> index_by_cues(e.cue_index, id, cues)],
              r |-> id]

\* CueMapEngine::upsert_memory_with_id
upsert_memory_with_id(e, id, content, cues, metadata, reinforce, now) ==
    IF id \in DOMAIN e.memories
    THEN LET attached == attach_cues(e, id, cues).e
         IN  [e |-> IF reinforce
                    THEN reinforce_memory(attached, id, cues, now).e
                    ELSE attached,
              r |-> id]
    ELSE LET memory == [Memory_new(id, content, metadata, now) EXCEPT !.cues = cues]
         IN  [e |-> [memories  |-> Put(e.memories, id, memory),
                     cue_index |-> index_by_cues(e.cue_index, id, cues)],
              r |-> id]

----------------------------------------------------------------------------
(* Fixed-point arithmetic for the f64 values of the ranker: a value x is   *)
(* the integer floor(x * Scale).                                           *)

Scale == 10 * 10 * 10

FMul(a, b) == (a * b) \div Scale

FDiv(a, b) == (a * Scale) \div b

FromInt(n) == n * Scale

\* the largest r in lo..hi with r * r <= n
RECURSIVE IsqrtBetween(_, _, _)
IsqrtBetween(n, lo, hi) ==
    IF lo >= hi THEN lo
    ELSE LET mid == (lo + hi + 1) \div 2
         IN  IF mid * mid <= n THEN IsqrtBetween(n, mid, hi)
             ELSE IsqrtBetween(n, lo, mid - 1)

\* f64::sqrt of the integer n
SqrtOfInt(n) == IsqrtBetween(n * Scale * Scale, 0, (n + 1) * Scale)

\* f64::log10 of the integers 1..112, in thousandths
Log10Table ==
    <<
      0, 301, 477, 602, 698, 778, 845, 903, 954, 1000,
      1041, 1079, 1113, 1146, 1176, 1204, 1230, 1255, 1278, 1301,
      1322, 1342, 1361, 1380, 1397, 1414, 1431, 1447, 1462, 1477,
      1491, 1505, 1518, 1531, 1544, 1556, 1568, 1579, 1591, 1602,
      1612, 1623, 1633, 1643, 1653, 1662, 1672, 1681, 1690, 1698,
      1707, 1716, 1724, 1732, 1740, 1748, 1755, 1763, 1770, 1778,
      1785, 1792, 1799, 1806, 1812, 1819, 1826, 1832, 1838, 1845,
      1851, 1857, 1863, 1869, 1875, 1880, 1886, 1892, 1897, 1903,
      1908, 1913, 1919, 1924, 1929, 1934, 1939, 1944, 1949, 1954,
      1959, 1963, 1968, 1973, 1977, 1982, 1986, 1991, 1995, 2000,
      2004, 2008, 2012, 2017, 2021, 2025, 2029, 2033, 2037, 2041,
      2045, 2049>>

\* f64::log10 of an integer n >= 1
Log10OfInt(n) == Log10Table[n]

----------------------------------------------------------------------------
(* The ranker (src/src/engine.rs).                                         *)

MAX_DRIVER_SCAN == 10000
MAX_REC_WEIGHT == 20
MAX_FREQ_WEIGHT == 5

\* the per-match terms of score_consolidated_candidates, for a match at
\* reverse-rank pos in a list of list_len ids
match_ratio(pos, list_len) == FDiv(FromInt(pos), SqrtOfInt(list_len))

match_w_rec(pos, list_len) ==
    FDiv(FromInt(MAX_REC_WEIGHT), match_ratio(pos, list_len) + FromInt(1))

match_w_freq(pos, list_len) ==
    FromInt(1) + FMul(FromInt(MAX_FREQ_WEIGHT),
                      FromInt(1) - FDiv(FromInt(1),
                                        match_ratio(pos, list_len) + FromInt(1)))

match_recency_component(pos) ==
    FDiv(FromInt(1), FromInt(pos) + FromInt(1))
        + (IF pos = 0 THEN FromInt(1) ELSE 0)

\* total_recency, total_w_rec and total_w_freq: the sums over the matches
\* <<pos, list_len, weight>> of a candidate
RECURSIVE total_recency(_)
total_recency(positions_info) ==
    IF positions_info = <<>> THEN 0
    ELSE LET pi == Head(positions_info)
         IN  FMul(match_recency_component(pi[1]), pi[3])
                 + total_recency(Tail(positions_info))

RECURSIVE total_w_rec(_)
total_w_rec(positions_info) ==
    IF positions_info = <<>> THEN 0
    ELSE LET pi == Head(positions_info)
         IN  match_w_rec(pi[1], pi[2]) + total_w_rec(Tail(positions_info))

RECURSIVE total_w_freq(_)
total_w_freq(positions_info) ==
    IF positions_info = <<>> THEN 0
    ELSE LET pi == Head(positions_info)
         IN  match_w_freq(pi[1], pi[2]) + total_w_freq(Tail(positions_info))

\* frequency_score: log10 of the reinforcement counter, 0 for a counter of 0
frequency_score_of(memory) ==
    IF memory.reinforcement_count > 0
    THEN Log10OfInt(memory.reinforcement_count)
    ELSE 0

\* the RecallResult of one candidate <<memory_id, positions_info, total_weight>>
\* whose memory is in the store; a match is <<pos, list_len, weight>>
score_candidate(memory, candidate, explain) ==
    LET positions_info == candidate[2]
        total_weight   == candidate[3]
        match_count    == Len(positions_info)
        avg_w_rec      == total_w_rec(positions_info) \div match_count
        avg_w_freq     == total_w_freq(positions_info) \div match_count
        recency_score  == total_recency(positions_info) \div match_count
        frequency_score == frequency_score_of(memory)
        intersection_score == FMul(total_weight, FromInt(100))
        score == intersection_score + FMul(recency_score, avg_w_rec)
                     + FMul(frequency_score, avg_w_freq)
    IN  [memory_id |-> candidate[1],
         content |-> memory.content,
         score |-> score,
         intersection_count |-> match_count,
         recency_score |-> recency_score,
         reinforcement_score |-> frequency_score,
         metadata |-> memory.metadata,
         explain |-> IF explain
                     THEN <<[intersection_weighted |-> total_weight,
                             intersection_score |-> intersection_score,
                             recency_component |-> recency_score,
                             frequency_component |-> frequency_score,
                             weights |-> [recency |-> avg_w_rec,
                                          frequency |-> avg_w_freq],
                             match_count |-> match_count]>>
                     ELSE <<>>]

\* CueMapEngine::score_consolidated_candidates: candidates whose memory is
\* not in the store are dropped
RECURSIVE score_consolidated_candidates(_, _, _)
score_consolidated_candidates(e, candidates, explain) ==
    IF candidates = <<>> THEN <<>>
    ELSE LET c == Head(candidates)
             rest == score_consolidated_candidates(e, Tail(candidates), explain)
         IN  IF c[1] \in DOMAIN e.memories
             THEN <<score_candidate(e.memories[c[1]], c, explain)>> \o rest
             ELSE rest

\* consolidated_search step 1: <<cue, weight, set>> of the query cues in the index
RECURSIVE gather_cue_data(_, _)
gather_cue_data(e, query_cues) ==
    IF query_cues = <<>> THEN <<>>
    ELSE LET q == Head(query_cues)
             rest == gather_cue_data(e, Tail(query_cues))
         IN  IF q[1] \in DOMAIN e.cue_index
             THEN <<<<q[1], q[2], e.cue_index[q[1]]>>>> \o rest
             ELSE rest

\* consolidated_search step 3: probe all query cue lists for a new candidate
\* found at reverse-rank pos_rev of list cue_idx
RECURSIVE probe_all(_, _, _, _, _)
probe_all(cue_data, other_idx, cue_idx, pos_rev, memory_id) ==
    IF other_idx > Len(cue_data) THEN [positions_info |-> <<>>, total_weight |-> 0]
    ELSE LET other == cue_data[other_idx]
             rest  == probe_all(cue_data, other_idx + 1, cue_idx, pos_rev, memory_id)
             hit(pos) ==
                 [positions_info |->
                      <<<<pos, OrderedSet_len(other[3]), other[2]>>>>
                          \o rest.positions_info,
                  total_weight |-> other[2] + rest.total_weight]
             oldest_idx == OrderedSet_get_index_of(other[3], memory_id)
         IN  IF other_idx = cue_idx THEN hit(pos_rev)
             ELSE IF oldest_idx # <<>>
                  THEN hit((OrderedSet_len(other[3]) - 1) - oldest_idx[1])
                  ELSE rest

\* consolidated_search step 2, for the items of list cue_idx from position i on:
\* acc is [seen, candidates]
RECURSIVE scan_items(_, _, _, _, _)
scan_items(cue_data, cue_idx, items, i, acc) ==
    IF i > Len(items) THEN acc
    ELSE LET memory_id == items[i]
             probed == probe_all(cue_data, 1, cue_idx, i - 1, memory_id)
         IN  IF memory_id \in acc.seen
             THEN scan_items(cue_data, cue_idx, items, i + 1, acc)
             ELSE scan_items(cue_data, cue_idx, items, i + 1,
                             [seen |-> acc.seen \cup {memory_id},
                              candidates |-> Append(acc.candidates,
                                  <<memory_id, probed.positions_info,
                                    probed.total_weight>>)])

RECURSIVE scan_cues(_, _, _)
scan_cues(cue_data, cue_idx, acc) ==
    IF cue_idx > Len(cue_data) THEN acc
    ELSE LET set == cue_data[cue_idx][3]
             scan_limit == Min(OrderedSet_len(set), MAX_DRIVER_SCAN)
             items == OrderedSet_get_recent(set, <<scan_limit>>)
         IN  scan_cues(cue_data, cue_idx + 1,
                       scan_items(cue_data, cue_idx, items, 1, acc))

\* CueMapEngine::consolidated_search
consolidated_search(e, query_cues, explain) ==
    IF query_cues = <<>> THEN <<>>
    ELSE LET cue_data == gather_cue_data(e, query_cues)
         IN  IF cue_data = <<>> THEN <<>>
             ELSE score_consolidated_candidates(e,
                      scan_cues(cue_data, 1, [seen |-> {}, candidates |-> <<>>]).candidates,
                      explain)

\* recall_weighted, "Normalize cues": lower-case and trim, keep the non-empty
\* cues that are keys of the index
normalize_query_cues(e, query_cues) ==
    LET lowered == [i \in 1..Len(query_cues) |->
                        <<cue_lower(query_cues[i][1]), query_cues[i][2]>>]
        Keep(q) == q[1] # <<>> /\ q[1] \in DOMAIN e.cue_index
    IN  SelectSeq(lowered, Keep)

\* an auto-reinforce that reinforces the first result only
reinforce_results_first_only(e, results, just_cues, now) ==
    IF results = <<>> THEN e
    ELSE reinforce_memory(e, Head(results).memory_id, just_cues, now).e

\* recall_weighted, "Auto-reinforce": reinforce every result with the query cues
RECURSIVE reinforce_results(_, _, _, _)
reinforce_results(e, results, just_cues, now) ==
    IF results = <<>> THEN e
    ELSE reinforce_results(
             reinforce_memory(e, Head(results).memory_id, just_cues, now).e,
             Tail(results), just_cues, now)

\* the orders of the results at the positions of `left` in which the scores
\* do not increase
RECURSIVE orders_by_score(_, _)
orders_by_score(results, left) ==
    IF left = {} THEN {<<>>}
    ELSE UNION {
            {<<results[i]>> \o rest : rest \in orders_by_score(results, left \ {i})} :
            i \in {j \in left : \A k \in left : results[j].score >= results[k].score}}

\* a sort that compares a with b instead of b with a: scores do not decrease
sort_unstable_by_score_ascending(results) ==
    {Reverse(sorted) : sorted \in orders_by_score(results, DOMAIN results)}

\* results.sort_unstable_by(score descending): every order of the results in
\* which the scores do not increase (ties fall in any order)
sort_unstable_by_score(results) == orders_by_score(results, DOMAIN results)

\* a recall_weighted that reinforces its results whatever the flag says
recall_weighted_unsorted_always_reinforcing(e, query_cues, auto_reinforce, min_intersection, explain, now) ==
    IF query_cues = <<>> THEN [e |-> e, r |-> <<>>]
    ELSE LET cues == normalize_query_cues(e, query_cues)
             found == consolidated_search(e, cues, explain)
             Keep(res) == res.intersection_count >= min_intersection[1]
             results == IF min_intersection # <<>> THEN SelectSeq(found, Keep)
                        ELSE found
             just_cues == [i \in 1..Len(cues) |-> cues[i][1]]
         IN  IF cues = <<>> THEN [e |-> e, r |-> <<>>]
             ELSE [e |-> reinforce_results(e, results, just_cues, now),
                   r |-> results]

\* CueMapEngine::recall_weighted up to the sort: the engine after it and the
\* filtered results; min_intersection is <<>> for None, <<n>> for Some(n)
recall_weighted_unsorted(e, query_cues, auto_reinforce, min_intersection, explain, now) ==
    IF query_cues = <<>> THEN [e |-> e, r |-> <<>>]
    ELSE LET cues == normalize_query_cues(e, query_cues)
             found == consolidated_search(e, cues, explain)
             Keep(res) == res.intersection_count >= min_intersection[1]
             results == IF min_intersection # <<>> THEN SelectSeq(found, Keep)
                        ELSE found
             just_cues == [i \in 1..Len(cues) |-> cues[i][1]]
         IN  IF cues = <<>> THEN [e |-> e, r |-> <<>>]
             ELSE [e |-> IF auto_reinforce
                         THEN reinforce_results(e, results, just_cues, now)
                         ELSE e,
                   r |-> results]

\* CueMapEngine::recall_weighted: the possible outcomes [e, r]
recall_weighted(e, query_cues, limit, auto_reinforce, min_intersection, explain, now) ==
    LET u == recall_weighted_unsorted(e, query_cues, auto_reinforce,
                                      min_intersection, explain, now)
    IN  {[e |-> u.e, r |-> Take(sorted, limit)] :
            sorted \in sort_unstable_by_score(u.r)}

\* CueMapEngine::recall_with_min_intersection: every cue gets weight 1.0
recall_with_min_intersection(e, query_cues, limit, auto_reinforce, min_intersection, now) ==
    IF query_cues = <<>> THEN {[e |-> e, r |-> <<>>]}
    ELSE recall_weighted(e,
             [i \in 1..Len(query_cues) |-> <<query_cues[i], FromInt(1)>>],
             limit, auto_reinforce, min_intersection, FALSE, now)

\* CueMapEngine::recall
recall(e, query_cues, limit, auto_reinforce, now) ==
    recall_with_min_intersection(e, query_cues, limit, auto_reinforce, <<>>, now)

----------------------------------------------------------------------------
(* Persistence (src/src/persistence.rs).                                   *)

PERSISTENCE_VERSION == 1

\* a PersistedState no snapshot holds (the data of a task that saves nothing)
NoState ==
    [memories |-> EmptyMap, cue_index |-> EmptyMap, version |-> 0, saved_at |-> 0]

\* save_state, "Convert DashMaps to serializable format": the memories, and
\* for each cue the ids as get_recent_owned(None) lists them
persisted_state(e, now) ==
    [memories  |-> e.memories,
     cue_index |-> [cue \in DOMAIN e.cue_index |->
                        OrderedSet_get_recent(e.cue_index[cue], <<>>)],
     version   |-> PERSISTENCE_VERSION,
     saved_at  |-> now]

\* bincode::serialize: the bytes of a state, as the two chunks they are
\* written in
serialize(state) == <<[data |-> state, idx |-> 1], [data |-> state, idx |-> 2]>>

\* a chunk of a file that was never written (a hole)
Hole == [data |-> NoState, idx |-> 0]

\* bincode::deserialize: <<state>> for the bytes of a state, <<>> (Err) for
\* anything else
deserialize(bytes) ==
    IF bytes # <<>> /\ bytes = serialize(bytes[1].data)
    THEN <<bytes[1].data>>
    ELSE <<>>

\* load_state: an OrderedSet filled by add, id after id in list order
RECURSIVE ordered_set_of(_, _)
ordered_set_of(ordered_set, memory_ids) ==
    IF memory_ids = <<>> THEN ordered_set
    ELSE ordered_set_of(OrderedSet_add(ordered_set, Head(memory_ids)),
                        Tail(memory_ids))

\* load_state, "Convert to DashMaps"
state_to_maps(state) ==
    [memories  |-> state.memories,
     cue_index |-> [cue \in DOMAIN state.cue_index |->
                        ordered_set_of(OrderedSet_new, state.cue_index[cue])]]

\* the data directory: names maps "final" (cuemap.bin) and "tmp"
\* (cuemap.bin.tmp) to an inode (0: no such file), inodes holds the chunks
\* of every inode in use
EmptyDisk == [names |-> [final |-> 0, tmp |-> 0], inodes |-> EmptyMap]

\* PersistenceManager::load_state: [report, maps]; report is "empty" when
\* there is no snapshot, "loaded" with the maps of the snapshot, or "error"
load_state(d) ==
    IF d.names.final = 0
    THEN [report |-> "empty", maps |-> CueMapEngine_new]
    ELSE LET state == deserialize(d.inodes[d.names.final])
         IN  IF state = <<>>
             THEN [report |-> "error", maps |-> CueMapEngine_new]
             ELSE [report |-> "loaded", maps |-> state_to_maps(state[1])]

\* PersistenceManager::load_from_path, which multi-tenant load_project calls
load_from_path(d) == load_state(d)

\* CueMapEngine::from_state
from_state(maps) == [memories |-> maps.memories, cue_index |-> maps.cue_index]

\* main, "Initialize engine for single-tenant mode", and
\* MultiTenantEngine::load_project: the ProjectContext built at start-up
\* from what load reports; an error starts fresh
loaded_project(loaded) ==
    [main    |-> IF loaded.report = "loaded" THEN from_state(loaded.maps)
                 ELSE CueMapEngine_new,
     aliases |-> CueMapEngine_new,
     lexicon |-> CueMapEngine_new]

\* a task that is not saving
IdleTask(pc) == [pc |-> pc, data |-> NoState, fd |-> 0, off |-> 0]

NoTasks == [periodic |-> IdleTask("absent"), shutdown |-> IdleTask("absent")]

\* the inodes in use: those with a name and those a task holds open
LiveInodes(names, tasks) ==
    ({names.final, names.tmp} \cup {tasks[t].fd : t \in DOMAIN tasks}) \ {0}

\* the disk with the inodes nothing refers to dropped
Collect(names, inodes, tasks) ==
    [names  |-> names,
     inodes |-> [i \in DOMAIN inodes \cap LiveInodes(names, tasks) |-> inodes[i]]]

\* an inode number not in use
FreshInode(d) == CHOOSE i \in 1..(Cardinality(DOMAIN d.inodes) + 1) :
                     i \notin DOMAIN d.inodes

\* a write of one chunk at 0-based chunk offset off: the chunks before it
\* that were never written are holes
WriteAt(bytes, off, chunk) ==
    [k \in 1..(IF Len(bytes) > off + 1 THEN Len(bytes) ELSE off + 1) |->
        IF k = off + 1 THEN chunk
        ELSE IF k <= Len(bytes) THEN bytes[k] ELSE Hole]

----------------------------------------------------------------------------
(* Inputs.                                                                 *)

\* cue lists as callers pass them: "a", "A " (the same cue once lower-cased
\* and trimmed), "b", a blank cue, a repeated cue
CueLists ==
    {<<>>,
     << <<"a">> >>,
     << <<"A", " ">> >>,
     << <<"b">> >>,
     << <<" ">>, <<"b">> >>,
     << <<"a">>, <<"b">> >>,
     << <<"b">>, <<"A", " ">> >>,
     << <<"a">>, <<"a">> >>}

\* ids minted by Uuid::new_v4, in the order they are minted
Uuid(n) == <<"uuid", n>>

\* ids supplied by callers of upsert_memory_with_id
KeyIds == {<<"key", 1>>}

\* an id no memory ever has
AbsentId == <<"key", 0>>

\* the ids a caller may name: the ids it was given, its own keys, an unknown id
TargetIds(e) == DOMAIN e.memories \cup KeyIds \cup {AbsentId}

Contents == {"x"}

\* Option<HashMap>: <<>> for None, <<m>> for Some(m)
MetadataArgs == {<<>>}

\* metadata.unwrap_or_default()
unwrap_or_default(metadata) == IF metadata = <<>> THEN EmptyMap ELSE metadata[1]

NoRecall == [called |-> FALSE]

NoExpand == [called |-> FALSE]

\* no call was made yet
NoCall == [op |-> "none"]

\* the job task awaiting rx.recv()
IdleWorker == [pc |-> "recv"]

\* a MultiTenantEngine that holds no project: ids -> Arc, Arc -> ProjectContext
NoTenants == [projects |-> EmptyMap, contexts |-> EmptyMap]

\* no job was sent yet
NoJobLog == [accepted |-> <<>>, started |-> <<>>]

----------------------------------------------------------------------------
(* The operations of one engine, as callers of ProjectContext.main use     *)
(* them one after the other.                                               *)

Init ==
    /\ main = CueMapEngine_new
    /\ aliases = CueMapEngine_new
    /\ lexicon = CueMapEngine_new
    /\ uuid_seq = 0
    /\ clock = 0
    /\ last_recall = NoRecall
    /\ last_expand = NoExpand
    /\ steps = 0
    /\ mode = "single"
    /\ proc = "running"
    /\ tick = FALSE
    /\ disk = EmptyDisk
    /\ task = NoTasks
    /\ load_report = "empty"
    /\ projects = {}
    /\ signal = "none"
    /\ last_call = NoCall
    /\ reinforce_calls = EmptyMap
    /\ callers = EmptyMap
    /\ queue = <<>>
    /\ worker = IdleWorker
    /\ query_cache = EmptyMap
    /\ read_only = FALSE
    /\ file_hashes = EmptyMap
    /\ tenants = NoTenants
    /\ job_log = NoJobLog

AddMemory ==
    /\ steps < MaxOps
    /\ \E content \in Contents, cues \in CueLists, metadata \in MetadataArgs :
          main' = add_memory(main, Uuid(uuid_seq + 1), content, cues,
                             unwrap_or_default(metadata), clock).e
    /\ uuid_seq' = uuid_seq + 1
    /\ steps' = steps + 1
    /\ UNCHANGED <<aliases, lexicon, clock, last_recall, last_expand>>
    /\ UNCHANGED process_vars
    /\ UNCHANGED service_vars

UpsertMemory ==
    /\ steps < MaxOps
    /\ \E id \in TargetIds(main), content \in Contents, cues \in CueLists,
          metadata \in MetadataArgs, reinforce \in BOOLEAN :
          main' = upsert_memory_with_id(main, id, content, cues,
                      unwrap_or_default(metadata), reinforce, clock).e
    /\ steps' = steps + 1
    /\ UNCHANGED <<aliases, lexicon, uuid_seq, clock, last_recall, last_expand>>
    /\ UNCHANGED process_vars
    /\ UNCHANGED service_vars

AttachCues ==
    /\ steps < MaxOps
    /\ \E id \in TargetIds(main), cues \in CueLists :
          main' = attach_cues(main, id, cues).e
    /\ steps' = steps + 1
    /\ UNCHANGED <<aliases, lexicon, uuid_seq, clock, last_recall, last_expand>>
    /\ UNCHANGED process_vars
    /\ UNCHANGED service_vars

ReinforceMemory ==
    /\ steps < MaxOps
    /\ \E id \in TargetIds(main), cues \in CueLists :
          main' = reinforce_memory(main, id, cues, clock).e
    /\ steps' = steps + 1
    /\ UNCHANGED <<aliases, lexicon, uuid_seq, clock, last_recall, last_expand>>
    /\ UNCHANGED process_vars
    /\ UNCHANGED service_vars

DeleteMemory ==
    /\ steps < MaxOps
    /\ \E id \in TargetIds(main) : main' = delete_memory(main, id).e
    /\ steps' = steps + 1
    /\ UNCHANGED <<aliases, lexicon, uuid_seq, clock, last_recall, last_expand>>
    /\ UNCHANGED process_vars
    /\ UNCHANGED service_vars

Next ==
    \/ AddMemory
    \/ UpsertMemory
    \/ AttachCues
    \/ ReinforceMemory
    \/ DeleteMemory

Spec == Init /\ [][Next]_vars

----------------------------------------------------------------------------
(* Recall among the operations of one engine.                              *)

\* the cue lists of the memories that are recalled
RecallCueLists ==
    {<< <<"a">> >>,
     << <<"b">>, <<"A", " ">> >>}

\* weighted query cues as callers pass them: none, one cue, two cues of
\* which one needs lower-casing and trimming, a repeated cue, an unknown cue
RecallQueries ==
    {<<>>,
     << <<<<"a">>, FromInt(1)>> >>,
     << <<<<"A", " ">>, FromInt(1)>>, <<<<"b">>, Scale \div 2>> >>,
     << <<<<"a">>, FromInt(1)>>, <<<<"a">>, FromInt(1)>> >>,
     << <<<<"c">>, FromInt(1)>> >>}

\* the limits of a recall
RecallLimits == {0, 1, 3}

\* Option<usize>: <<>> for None, <<n>> for Some(n)
MinIntersections == {<<>>, <<2>>}

\* a caller adds a memory
StoreMemory ==
    /\ steps < MaxRecallOps
    /\ \E cues \in RecallCueLists :
          main' = add_memory(main, Uuid(uuid_seq + 1), "x", cues, EmptyMap,
                             clock).e
    /\ uuid_seq' = uuid_seq + 1
    /\ steps' = steps + 1
    /\ last_recall' = NoRecall
    /\ UNCHANGED <<aliases, lexicon, clock, last_expand>>
    /\ UNCHANGED process_vars
    /\ UNCHANGED service_vars

\* a caller reinforces a memory it was given, under the cue "a"
ReinforceStored ==
    /\ steps < MaxRecallOps
    /\ \E id \in DOMAIN main.memories :
          main' = reinforce_memory(main, id, << <<"a">> >>, clock).e
    /\ steps' = steps + 1
    /\ last_recall' = NoRecall
    /\ UNCHANGED <<aliases, lexicon, uuid_seq, clock, last_expand>>
    /\ UNCHANGED process_vars
    /\ UNCHANGED service_vars

\* a caller deletes a memory it was given
DeleteStored ==
    /\ steps < MaxRecallOps
    /\ \E id \in DOMAIN main.memories : main' = delete_memory(main, id).e
    /\ steps' = steps + 1
    /\ last_recall' = NoRecall
    /\ UNCHANGED <<aliases, lexicon, uuid_seq, clock, last_expand>>
    /\ UNCHANGED process_vars
    /\ UNCHANGED service_vars

\* a caller recalls with weighted cues
RecallWeighted ==
    /\ steps < MaxRecallOps
    /\ \E query_cues \in RecallQueries, limit \in RecallLimits,
          auto_reinforce \in BOOLEAN, min_intersection \in MinIntersections,
          explain \in BOOLEAN :
          \E out \in recall_weighted(main, query_cues, limit, auto_reinforce,
                                     min_intersection, explain, clock) :
             /\ main' = out.e
             /\ last_recall' = [called |-> TRUE, query_cues |-> query_cues,
                                limit |-> limit,
                                auto_reinforce |-> auto_reinforce,
                                min_intersection |-> min_intersection,
                                before |-> main, after |-> out.e,
                                results |-> out.r]
    /\ steps' = steps + 1
    /\ UNCHANGED <<aliases, lexicon, uuid_seq, clock, last_expand>>
    /\ UNCHANGED process_vars
    /\ UNCHANGED service_vars

NextRecall ==
    \/ StoreMemory
    \/ ReinforceStored
    \/ DeleteStored
    \/ RecallWeighted

SpecRecall == Init /\ [][NextRecall]_vars

----------------------------------------------------------------------------
(* Recall with one query cue over memories that share it.                  *)

\* a caller adds a memory with the cue "a"
RankAdd ==
    /\ uuid_seq < MaxRankAdds
    /\ main' = add_memory(main, Uuid(uuid_seq + 1), "x", << <<"a">> >>,
                          EmptyMap, clock).e
    /\ uuid_seq' = uuid_seq + 1
    /\ last_recall' = NoRecall
    /\ UNCHANGED <<aliases, lexicon, clock, last_expand, steps>>
    /\ UNCHANGED process_vars
    /\ UNCHANGED service_vars

\* a caller reinforces a memory under no cue or under the cue "a"
RankReinforce ==
    /\ steps < MaxRankReinforces
    /\ \E id \in DOMAIN main.memories, cues \in {<<>>, << <<"a">> >>} :
          main' = reinforce_memory(main, id, cues, clock).e
    /\ steps' = steps + 1
    /\ last_recall' = NoRecall
    /\ UNCHANGED <<aliases, lexicon, uuid_seq, clock, last_expand>>
    /\ UNCHANGED process_vars
    /\ UNCHANGED service_vars

\* a caller recalls with the one cue "a" and a limit that drops no result;
\* a recall that reinforces its results counts as a reinforcement
RankRecall ==
    /\ main.memories # EmptyMap
    /\ \E auto_reinforce \in BOOLEAN :
          /\ auto_reinforce => steps < MaxRankReinforces
          /\ steps' = IF auto_reinforce THEN steps + 1 ELSE steps
          /\ \E out \in recall(main, << <<"a">> >>,
                               Cardinality(DOMAIN main.memories),
                               auto_reinforce, clock) :
                /\ main' = out.e
                /\ last_recall' = [called |-> TRUE,
                                   query_cues |-> << <<<<"a">>, FromInt(1)>> >>,
                                   limit |-> Cardinality(DOMAIN main.memories),
                                   min_intersection |-> <<>>,
                                   before |-> main, after |-> out.e,
                                   results |-> out.r]
    /\ UNCHANGED <<aliases, lexicon, uuid_seq, clock, last_expand>>
    /\ UNCHANGED process_vars
    /\ UNCHANGED service_vars

NextRank ==
    \/ RankAdd
    \/ RankReinforce
    \/ RankRecall

SpecRank == Init /\ [][NextRank]_vars

----------------------------------------------------------------------------
(* The server process and its snapshots (src/src/main.rs,                  *)
(* src/src/persistence.rs, src/src/multi_tenant.rs): start-up load, the    *)
(* periodic snapshot task, the shutdown handler, crashes.  A save is the   *)
(* steps of save_state, each an action of the task that runs it, so that   *)
(* the two tasks interleave as the threads of the runtime do.              *)

\* the one project of the multi-tenant store
ProjectId == "p"

\* the cue lists of the memories added while snapshots are taken
SnapCueLists == {<< <<"b">>, <<"A", " ">> >>}

\* the snapshot of another release: well-formed, with another version
ForeignState ==
    [persisted_state(
        add_memory(CueMapEngine_new, <<"key", 1>>, "x", << <<"a">> >>,
                   EmptyMap, 0).e, 0)
     EXCEPT !.version = PERSISTENCE_VERSION + 1]

\* a data directory whose snapshot file holds the bytes of state
DiskHolding(state) ==
    [names |-> [final |-> 1, tmp |-> 0],
     inodes |-> Put(EmptyMap, 1, serialize(state))]

Savers == {"periodic", "shutdown"}

\* where a task goes when its save_state returned: the snapshot task awaits
\* the next tick, the shutdown handler exits
AfterSave(t) == IF t = "periodic" THEN "waiting" ELSE "exit"

InitSnap ==
    /\ main = CueMapEngine_new
    /\ aliases = CueMapEngine_new
    /\ lexicon = CueMapEngine_new
    /\ uuid_seq = 0
    /\ clock = 0
    /\ last_recall = NoRecall
    /\ last_expand = NoExpand
    /\ steps = 0
    /\ mode \in {"single", "multi"}
    /\ proc = "down"
    /\ tick = FALSE
    /\ disk \in {EmptyDisk, DiskHolding(ForeignState)}
    /\ task = NoTasks
    /\ load_report = "empty"
    /\ projects = {}
    /\ signal = "none"
    /\ last_call = NoCall
    /\ reinforce_calls = EmptyMap
    /\ callers = EmptyMap
    /\ queue = <<>>
    /\ worker = IdleWorker
    /\ query_cache = EmptyMap
    /\ read_only = FALSE
    /\ file_hashes = EmptyMap
    /\ tenants = NoTenants
    /\ job_log = NoJobLog

\* main: load the snapshot, then spawn the snapshot task and the shutdown
\* handler (single-tenant) or the shutdown handler alone (multi-tenant)
Boot ==
    /\ proc = "down"
    /\ LET loaded  == IF mode = "single" THEN load_state(disk)
                      ELSE load_from_path(disk)
           project == loaded_project(loaded)
       IN  /\ main' = project.main
           /\ aliases' = project.aliases
           /\ lexicon' = project.lexicon
           /\ load_report' = loaded.report
           /\ projects' = IF mode = "multi" /\ loaded.report = "loaded"
                          THEN {ProjectId} ELSE {}
    /\ proc' = "running"
    /\ task' = [periodic |-> IdleTask(IF mode = "single" THEN "waiting"
                                      ELSE "absent"),
                shutdown |-> IdleTask("waiting")]
    /\ signal' = "none"
    /\ UNCHANGED <<uuid_seq, clock, last_recall, last_expand, steps, mode,
                   tick, disk>>
    /\ UNCHANGED service_vars

\* a request that adds a memory to the Project's engine; in multi-tenant
\* mode get_or_create_project creates the project first
SnapAdd ==
    /\ proc = "running"
    /\ steps < MaxSnapAdds
    /\ \E cues \in SnapCueLists :
          main' = add_memory(main, Uuid(uuid_seq + 1), "x", cues, EmptyMap,
                             clock).e
    /\ uuid_seq' = uuid_seq + 1
    /\ steps' = steps + 1
    /\ projects' = IF mode = "multi" THEN projects \cup {ProjectId} ELSE projects
    /\ UNCHANGED <<aliases, lexicon, clock, last_recall, last_expand, mode,
                   proc, tick, disk, task, load_report, signal>>
    /\ UNCHANGED service_vars

\* a request that adds an entry to the Alias Registry or to the Lexicon
SnapAddEntry ==
    /\ proc = "running"
    /\ steps < MaxSnapAdds
    /\ \E registry \in {"aliases", "lexicon"} :
          LET id == Uuid(uuid_seq + 1)
          IN  IF registry = "aliases"
              THEN /\ aliases' = add_memory(aliases, id, "x",
                                     << <<"type:alias">> >>, EmptyMap, clock).e
                   /\ UNCHANGED lexicon
              ELSE /\ lexicon' = add_memory(lexicon, id, "x",
                                     << <<"a">> >>, EmptyMap, clock).e
                   /\ UNCHANGED aliases
    /\ uuid_seq' = uuid_seq + 1
    /\ steps' = steps + 1
    /\ projects' = IF mode = "multi" THEN projects \cup {ProjectId} ELSE projects
    /\ UNCHANGED <<main, clock, last_recall, last_expand, mode, proc, tick,
                   disk, task, load_report, signal>>
    /\ UNCHANGED service_vars

\* the snapshot interval elapses: interval.tick() of the snapshot task
\* completes, when there is such a task; a tick that falls into a running
\* save is delivered when the save has ended
IntervalElapses ==
    /\ proc = "running"
    /\ task.periodic.pc \in {"waiting", "absent"}
    /\ tick' = ~tick
    /\ task' = IF task.periodic.pc = "waiting"
               THEN [task EXCEPT !.periodic.pc = "capture"]
               ELSE task
    /\ UNCHANGED <<project_vars, mode, proc, disk, load_report, projects, signal>>
    /\ UNCHANGED service_vars

\* the process ends: its memory and its open files are gone, the data
\* directory stays as it is
Halt ==
    /\ proc' = "down"
    /\ main' = CueMapEngine_new
    /\ aliases' = CueMapEngine_new
    /\ lexicon' = CueMapEngine_new
    /\ projects' = {}
    /\ task' = NoTasks
    /\ disk' = Collect(disk.names, disk.inodes, NoTasks)

\* whether the process has a handler for sig: setup_shutdown_handler waits
\* for SIGINT and SIGTERM, setup_multi_tenant_shutdown_handler for ctrl_c
Handles(sig) == mode = "single" \/ sig = "SIGINT"

\* SIGINT or SIGTERM is delivered: the shutdown handler starts its save
\* (save_all saves every project the store holds), or, lacking a handler,
\* the process is terminated
ReceiveSignal ==
    /\ proc = "running"
    /\ \E sig \in {"SIGINT", "SIGTERM"} :
          /\ signal' = sig
          /\ IF Handles(sig)
             THEN /\ task.shutdown.pc = "waiting"
                  /\ task' = [task EXCEPT !.shutdown.pc =
                                 IF mode = "multi" /\ projects = {}
                                 THEN "exit" ELSE "capture"]
                  /\ UNCHANGED <<main, aliases, lexicon, proc, disk, projects>>
             ELSE Halt
    /\ UNCHANGED <<uuid_seq, clock, last_recall, last_expand, steps, mode,
                   tick, load_report>>
    /\ UNCHANGED service_vars

\* save_state up to bincode::serialize: the state is captured and serialized
Capture(t) ==
    /\ task[t].pc = "capture"
    /\ task' = [task EXCEPT ![t].pc = "create",
                            ![t].data = persisted_state(main, clock)]
    /\ UNCHANGED <<project_vars, mode, proc, tick, disk, load_report,
                   projects, signal>>
    /\ UNCHANGED service_vars

\* fs::write, File::create: the temp file is created, or truncated when it
\* exists
Create(t) ==
    /\ task[t].pc = "create"
    /\ LET i == IF disk.names.tmp # 0 THEN disk.names.tmp ELSE FreshInode(disk)
       IN  /\ disk' = [names  |-> [disk.names EXCEPT !.tmp = i],
                       inodes |-> Put(disk.inodes, i, <<>>)]
           /\ task' = [task EXCEPT ![t].pc = "write", ![t].fd = i, ![t].off = 0]
    /\ UNCHANGED <<project_vars, mode, proc, tick, load_report, projects, signal>>
    /\ UNCHANGED service_vars

\* fs::write, write_all: the next chunk goes to the open file; after the
\* last one the file is closed
Write(t) ==
    /\ task[t].pc = "write"
    /\ LET bytes == serialize(task[t].data)
           off   == task[t].off
           last  == off + 1 = Len(bytes)
           after == [task EXCEPT ![t].pc = IF last THEN "rename" ELSE "write",
                                 ![t].fd = IF last THEN 0 ELSE @,
                                 ![t].off = off + 1]
           inodes == [disk.inodes EXCEPT ![task[t].fd] =
                         WriteAt(@, off, bytes[off + 1])]
       IN  /\ task' = after
           /\ disk' = Collect(disk.names, inodes, after)
    /\ UNCHANGED <<project_vars, mode, proc, tick, load_report, projects, signal>>
    /\ UNCHANGED service_vars

\* fs::write returns an error (the disk is full): save_state returns it
WriteFails(t) ==
    /\ task[t].pc = "write"
    /\ LET after == [task EXCEPT ![t] = IdleTask(AfterSave(t))]
       IN  /\ task' = after
           /\ disk' = Collect(disk.names, disk.inodes, after)
    /\ UNCHANGED <<project_vars, mode, proc, tick, load_report, projects, signal>>
    /\ UNCHANGED service_vars

\* fs::rename of the temp file over the snapshot file; an error when there
\* is no temp file
Rename(t) ==
    /\ task[t].pc = "rename"
    /\ LET after == [task EXCEPT ![t] = IdleTask(AfterSave(t))]
           names == IF disk.names.tmp = 0 THEN disk.names
                    ELSE [final |-> disk.names.tmp, tmp |-> 0]
       IN  /\ task' = after
           /\ disk' = Collect(names, disk.inodes, after)
    /\ UNCHANGED <<project_vars, mode, proc, tick, load_report, projects, signal>>
    /\ UNCHANGED service_vars

\* std::process::exit(0) of the shutdown handler
Exit ==
    /\ task.shutdown.pc = "exit"
    /\ Halt
    /\ UNCHANGED <<uuid_seq, clock, last_recall, last_expand, steps, mode,
                   tick, load_report, signal>>
    /\ UNCHANGED service_vars

\* the process is killed or the machine stops
Crash ==
    /\ proc = "running"
    /\ Halt
    /\ UNCHANGED <<uuid_seq, clock, last_recall, last_expand, steps, mode,
                   tick, load_report, signal>>
    /\ UNCHANGED service_vars

NextSnap ==
    \/ Boot
    \/ SnapAdd
    \/ SnapAddEntry
    \/ IntervalElapses
    \/ ReceiveSignal
    \/ \E t \in Savers : Capture(t)
    \/ \E t \in Savers : Create(t)
    \/ \E t \in Savers : Write(t)
    \/ \E t \in Savers : WriteFails(t)
    \/ \E t \in Savers : Rename(t)
    \/ Exit
    \/ Crash

SpecSnap == InitSnap /\ [][NextSnap]_vars

----------------------------------------------------------------------------
(* Alias expansion (src/src/projects.rs) over the Alias Registry, whose    *)
(* entries are registered as the alias proposal job (src/src/jobs.rs) and  *)
(* the callers of ProjectContext.aliases register them.                    *)

\* serde_json's to_string of a JSON object, and a text that is no JSON
JsonText(value) == [kind |-> "json", value |-> value]
PlainText == [kind |-> "text", value |-> <<>>]

\* serde_json::from_str::<Value>: <<value>> for Ok(value), <<>> for an error
from_str(text) == IF text.kind = "json" THEN <<text.value>> ELSE <<>>

\* Value::get(key): <<v>> for Some(v), <<>> for None
get(data, key) == IF key \in DOMAIN data THEN <<data[key]>> ELSE <<>>

\* format!("from:{}", cue) and the like
format(prefix, cue) == <<prefix>> \o cue

\* the default downweight of expand_query_cues, 0.85
DEFAULT_DOWNWEIGHT == (85 * Scale) \div 100

\* the query of expand_query_cues for one cue
alias_query(cue) ==
    <<<<"type:alias">>, format("from:", cue), <<"status:", "active">>>>

\* expand_query_cues, "Parse alias content to get target cue and weight":
\* the pairs pushed for the recalled aliases
RECURSIVE alias_pairs(_)
alias_pairs(found) ==
    IF found = <<>> THEN <<>>
    ELSE LET data == from_str(Head(found).content)
             to_cue == IF data = <<>> THEN <<>> ELSE get(data[1], "to")
             downweight == IF data = <<>> THEN <<>> ELSE get(data[1], "downweight")
             rest == alias_pairs(Tail(found))
         IN  IF to_cue = <<>> THEN rest
             ELSE <<<<to_cue[1], IF downweight = <<>> THEN DEFAULT_DOWNWEIGHT
                                 ELSE downweight[1]>>>> \o rest

\* the number of aliases expand_query_cues recalls for one cue
ALIAS_RECALL_LIMIT == 8

\* ProjectContext::expand_query_cues: the possible outcomes
\* [e: the Alias Registry after it, r: the expanded (cue, weight) pairs]
RECURSIVE expand_query_cues(_, _, _)
expand_query_cues(e, cues, now) ==
    IF cues = <<>> THEN {[e |-> e, r |-> <<>>]}
    ELSE UNION {
            {[e |-> rest.e,
              r |-> <<<<Head(cues), FromInt(1)>>>> \o alias_pairs(found.r) \o rest.r] :
                 rest \in expand_query_cues(found.e, Tail(cues), now)} :
            found \in recall(e, alias_query(Head(cues)), ALIAS_RECALL_LIMIT,
                             TRUE, now)}

\* the cues that aliases map from and to
AliasFrom == {<<"pay">>, <<"x">>}
AliasTo == {<<"y">>}

\* the JSON object of an alias
alias_value(from, to, downweight, status) ==
    LET base == [from |-> from, to |-> to, status |-> status]
    IN  IF downweight = <<>> THEN base
        ELSE [k \in DOMAIN base \cup {"downweight"} |->
                 IF k = "downweight" THEN downweight[1] ELSE base[k]]

\* the id of a proposed alias: Uuid::new_v5 of "alias->canon"
alias_uuid(from, to) == <<"uuid5", from \o <<"->">> \o to>>

\* a caller registers an alias in the Alias Registry with add_memory, its
\* cues naming the type, the source cue and the status
RegisterAlias ==
    /\ uuid_seq < MaxAliases
    /\ \E from \in AliasFrom, to \in AliasTo, status \in {"active", "proposed"},
          content \in {"plain", "default", "weighted"} :
          LET text == CASE content = "plain" -> PlainText
                        [] content = "default" ->
                             JsonText(alias_value(from, to, <<>>, status))
                        [] content = "weighted" ->
                             JsonText(alias_value(from, to, <<Scale \div 2>>, status))
              cues == <<<<"type:alias">>, format("from:", from),
                        format("status:", <<status>>)>>
          IN  aliases' = add_memory(aliases, Uuid(uuid_seq + 1), text, cues,
                                    EmptyMap, clock).e
    /\ uuid_seq' = uuid_seq + 1
    /\ UNCHANGED <<main, lexicon, clock, last_recall, last_expand, steps>>
    /\ UNCHANGED process_vars
    /\ UNCHANGED service_vars

\* process_job, Job::ProposeAliases, "Register Proposals": a proposal that
\* is not yet in the registry is stored with status proposed
ProposeAlias ==
    /\ uuid_seq < MaxAliases
    /\ \E from \in AliasFrom, to \in AliasTo, score \in {(9 * Scale) \div 10} :
          LET alias_id == alias_uuid(from, to)
              id_cue == format("alias_id:", alias_id[2])
              text == JsonText(
                  [k \in {"from", "to", "downweight", "status", "reason"} |->
                      CASE k = "from" -> from
                        [] k = "to" -> to
                        [] k = "downweight" -> score
                        [] k = "status" -> "proposed"
                        [] k = "reason" -> "overlap_analysis"])
              cues == <<<<"type:alias">>, format("from:", from),
                        format("to:", to), <<"status:", "proposed">>,
                        <<"reason:", "overlap_analysis">>, id_cue>>
          IN  /\ id_cue \notin DOMAIN aliases.cue_index
              /\ aliases' = upsert_memory_with_id(aliases, alias_id, text, cues,
                                                  EmptyMap, FALSE, clock).e
    /\ uuid_seq' = uuid_seq + 1
    /\ UNCHANGED <<main, lexicon, clock, last_recall, last_expand, steps>>
    /\ UNCHANGED process_vars
    /\ UNCHANGED service_vars

\* the cue lists that are expanded
ExpandInputs == {<< <<"pay">> >>, << <<"x">>, <<"pay">> >>, << <<"q">> >>}

\* a recall request expands its cues
ExpandQueryCues ==
    /\ steps < MaxExpands
    /\ \E cues \in ExpandInputs :
          \E out \in expand_query_cues(aliases, cues, clock) :
             /\ aliases' = out.e
             /\ last_expand' = [called |-> TRUE, cues |-> cues,
                                registry |-> aliases, expanded |-> out.r]
    /\ steps' = steps + 1
    /\ UNCHANGED <<main, lexicon, uuid_seq, clock, last_recall>>
    /\ UNCHANGED process_vars
    /\ UNCHANGED service_vars

NextAlias ==
    \/ RegisterAlias
    \/ ProposeAlias
    \/ ExpandQueryCues

SpecAlias == Init /\ [][NextAlias]_vars

----------------------------------------------------------------------------
(* Index consistency of one engine.                                        *)

\* the keys of the index a memory's cues stand for
CueKeysOf(memory) ==
    {cue_lower(memory.cues[i]) : i \in 1..Len(memory.cues)} \ {<<>>}

\* the keys of the index whose Ordered Set holds id
KeysHolding(e, id) ==
    {key \in DOMAIN e.cue_index : Contains(e.cue_index[key], id)}

C2_NoDanglingReferences ==
    \A key \in DOMAIN main.cue_index :
        Range(main.cue_index[key]) \subseteq DOMAIN main.memories

\* a memory indexed under "a" through the cue "A " was deleted while another
\* memory is still indexed under "a"
C2_Witness ==
    /\ uuid_seq >= 1
    /\ Uuid(1) \notin DOMAIN main.memories
    /\ <<"a">> \in DOMAIN main.cue_index
    /\ main.cue_index[<<"a">>] # <<>>

----------------------------------------------------------------------------
(* Snapshots: round trip, order, atomicity, load errors, schedule.         *)

\* the Project a fresh single-tenant process holds after the running one
\* saved its state undisturbed and ended: save_state, then load_state
Reloaded == loaded_project(load_state(DiskHolding(persisted_state(main, clock))))

\* the ids a cue of engine e is indexed to
MembersOf(e, cue) == IF cue \in DOMAIN e.cue_index THEN Range(e.cue_index[cue]) ELSE {}

\* C3: saving a Project and loading the snapshot in a fresh process yields
\* an equivalent Project: the same memories, each cue indexed to the same
\* ids, and the same Alias Registry and Lexicon contents.
C3_SnapshotRoundTrip ==
    (mode = "single" /\ proc = "running") =>
        /\ Reloaded.main.memories = main.memories
        /\ \A cue \in DOMAIN main.cue_index \cup DOMAIN Reloaded.main.cue_index :
              MembersOf(Reloaded.main, cue) = MembersOf(main, cue)
        /\ Reloaded.aliases.memories = aliases.memories
        /\ Reloaded.lexicon.memories = lexicon.memories

\* C4: after save followed by load every cue's Ordered Set holds its ids in
\* the order it held them before the save (the tail is still the tail).
C4_SnapshotOrderPreserved ==
    (mode = "single" /\ proc = "running") =>
        \A cue \in DOMAIN main.cue_index :
            /\ cue \in DOMAIN Reloaded.main.cue_index
            /\ Reloaded.main.cue_index[cue] = main.cue_index[cue]

\* whether the snapshot file is there and its bytes are those of no state
PartialSnapshot ==
    /\ disk.names.final # 0
    /\ deserialize(disk.inodes[disk.names.final]) = <<>>

\* C5: at every instant, crashes and overlapping saves of the snapshot task
\* and the shutdown handler included, the snapshot file is absent or holds
\* one complete snapshot, never a partially written one.
C5_AtomicSave == mode = "single" => ~PartialSnapshot

\* whether the snapshot file holds a state of another persistence version
ForeignSnapshot ==
    /\ disk.names.final # 0
    /\ LET state == deserialize(disk.inodes[disk.names.final])
       IN  /\ state # <<>>
           /\ state[1].version # PERSISTENCE_VERSION

\* C6: a start-up that finds no snapshot file reports an empty state and no
\* error; a start-up that finds a snapshot of another version reports it and
\* does not install its contents.
C6_LoadErrorHandling ==
    [][(mode = "single" /\ proc = "down" /\ proc' = "running") =>
          /\ disk.names.final = 0 =>
                (load_report' = "empty" /\ main' = CueMapEngine_new)
          /\ ForeignSnapshot =>
                (load_report' = "error" /\ main' = CueMapEngine_new)]_vars

\* C7: in both modes every tick of the snapshot interval starts a save of
\* the Project, and so does an interrupt or a termination signal delivered
\* to a process that holds a Project.
C7_DurabilitySchedule ==
    [][/\ (proc = "running" /\ tick' # tick /\ (mode = "multi" => projects # {}))
            => task'.periodic.pc = "capture"
       /\ (proc = "running" /\ signal' # signal /\ signal' # "none"
              /\ (mode = "multi" => projects # {}))
            => task'.shutdown.pc = "capture"]_vars

----------------------------------------------------------------------------
(* Alias expansion soundness.                                              *)

\* whether the registry holds an active alias from the cue `from` to `to`
ActiveAlias(registry, from, to) ==
    \E id \in DOMAIN registry.memories :
        LET data == from_str(registry.memories[id].content)
        IN  /\ data # <<>>
            /\ data[1].status = "active"
            /\ data[1].from = from
            /\ data[1].to = to

\* C8: every pair (cue, weight) that expand_query_cues returns is an input
\* cue with weight 1.0 or comes from an alias of the registry whose status
\* is active, whose `from` is an input cue and whose `to` is the cue returned.
C8_AliasExpansionSound ==
    last_expand.called =>
        \A i \in 1..Len(last_expand.expanded) :
            LET pair == last_expand.expanded[i]
            IN  \/ Contains(last_expand.cues, pair[1]) /\ pair[2] = FromInt(1)
                \/ \E k \in 1..Len(last_expand.cues) :
                      ActiveAlias(last_expand.registry, last_expand.cues[k], pair[1])

----------------------------------------------------------------------------
(* Recall: freshness and the shape of the output.                          *)

\* the reverse-rank of id in the Ordered Set items: 0 for the tail
ReverseRank(items, id) ==
    (OrderedSet_len(items) - 1) - OrderedSet_get_index_of(items, id)[1]

\* whether the last call was a recall with the single query cue "a" over
\* the Ordered Set of that cue
SingleCueRecall ==
    /\ last_recall.called
    /\ Len(last_recall.query_cues) = 1
    /\ <<"a">> \in DOMAIN last_recall.before.cue_index

\* whether result i of the last recall ranks before result j in the Ordered
\* Set of the query cue, as it was when the recall began
MoreRecent(i, j) ==
    LET items == last_recall.before.cue_index[<<"a">>]
    IN  ReverseRank(items, last_recall.results[i].memory_id)
            < ReverseRank(items, last_recall.results[j].memory_id)

C10_RecallOutputShape ==
    last_recall.called =>
        LET results == last_recall.results
            store   == last_recall.after
        IN  /\ Len(results) <= last_recall.limit
            /\ \A i \in 1..(Len(results) - 1) :
                  results[i].score >= results[i + 1].score
            /\ \A i \in 1..Len(results) :
                  /\ results[i].memory_id \in DOMAIN store.memories
                  /\ \E k \in 1..Len(last_recall.query_cues) :
                        LET key == cue_lower(last_recall.query_cues[k][1])
                        IN  /\ key \in DOMAIN store.cue_index
                            /\ Contains(store.cue_index[key], results[i].memory_id)
                  /\ last_recall.min_intersection # <<>> =>
                        results[i].intersection_count
                            >= last_recall.min_intersection[1]

\* a recall with limit 1 and min_intersection 2 over a store of two memories
\* that match both query cues and one that matches a single cue returns one
\* result
C10_Witness ==
    /\ last_recall.called
    /\ last_recall.limit = 1
    /\ last_recall.min_intersection = <<2>>
    /\ Len(last_recall.results) = 1
    /\ Len(last_recall.query_cues) = 2
    /\ \E m1, m2, m3 \in DOMAIN last_recall.before.memories :
          /\ m1 # m2
          /\ Len(last_recall.before.memories[m1].cues) = 2
          /\ Len(last_recall.before.memories[m2].cues) = 2
          /\ Len(last_recall.before.memories[m3].cues) = 1

----------------------------------------------------------------------------
(* The reinforcement counter: reinforce_memory called directly by two      *)
(* threads, through upsert and through the auto-reinforce of recall.  The  *)
(* touch of reinforce_memory runs under the guard of memories.get_mut and  *)
(* is one step; each move_to_front that follows is a step of its own.      *)

\* two memories under ids their callers supply, as in
\* test_log_frequency_scaling: one is reinforced up to MaxFrequent times, the
\* other up to MaxRare times
MaxFrequent == 100
MaxRare == 3

FrequentId == <<"key", 1>>
RareId == <<"key", 2>>

CountIds == {FrequentId, RareId}

MaxReinforcements(id) == IF id = FrequentId THEN MaxFrequent ELSE MaxRare

Threads == {"t1", "t2"}

\* a thread that is inside no call
IdleCaller == [pc |-> "idle"]

\* the number of reinforce calls that succeeded on id, one more
Counted(calls, id) ==
    Put(calls, id, (IF id \in DOMAIN calls THEN calls[id] ELSE 0) + 1)

\* Counted for every result of a recall that reinforces
RECURSIVE CountedEach(_, _)
CountedEach(calls, results) ==
    IF results = <<>> THEN calls
    ELSE CountedEach(Counted(calls, Head(results).memory_id), Tail(results))

InitCount ==
    /\ main = CueMapEngine_new
    /\ aliases = CueMapEngine_new
    /\ lexicon = CueMapEngine_new
    /\ uuid_seq = 0
    /\ clock = 0
    /\ last_recall = NoRecall
    /\ last_expand = NoExpand
    /\ steps = 0
    /\ mode = "single"
    /\ proc = "running"
    /\ tick = FALSE
    /\ disk = EmptyDisk
    /\ task = NoTasks
    /\ load_report = "empty"
    /\ projects = {}
    /\ signal = "none"
    /\ last_call = NoCall
    /\ reinforce_calls = EmptyMap
    /\ callers = [t \in Threads |-> IdleCaller]
    /\ queue = <<>>
    /\ worker = IdleWorker
    /\ query_cache = EmptyMap
    /\ read_only = FALSE
    /\ file_hashes = EmptyMap
    /\ tenants = NoTenants
    /\ job_log = NoJobLog

\* a caller upserts a memory under its own id, with or without reinforce
CountUpsert ==
    /\ \E id \in CountIds, reinforce \in BOOLEAN :
          /\ (id \in DOMAIN main.memories /\ reinforce) =>
                main.memories[id].reinforcement_count < MaxReinforcements(id)
          /\ main' = upsert_memory_with_id(main, id, "x", << <<"a">> >>,
                                           EmptyMap, reinforce, clock).e
          /\ reinforce_calls' =
                IF id \notin DOMAIN main.memories THEN Put(reinforce_calls, id, 0)
                ELSE IF reinforce THEN Counted(reinforce_calls, id)
                ELSE reinforce_calls
    /\ last_recall' = NoRecall
    /\ UNCHANGED <<aliases, lexicon, uuid_seq, clock, last_expand, steps>>
    /\ UNCHANGED process_vars
    /\ UNCHANGED <<last_call, callers, queue, worker, query_cache, read_only,file_hashes,tenants,job_log>>

\* reinforce_memory, "Update last accessed": a thread enters the call; an
\* absent id returns false, a present one is touched under the guard
CountReinforceTouch(t) ==
    /\ callers[t].pc = "idle"
    /\ \E id \in CountIds \cup {AbsentId}, cues \in {<<>>, << <<"a">> >>} :
          IF id \in DOMAIN main.memories
          THEN /\ main.memories[id].reinforcement_count < MaxReinforcements(id)
               /\ main' = [main EXCEPT !.memories[id] = touch(@, clock)]
               /\ reinforce_calls' = Counted(reinforce_calls, id)
               /\ callers' = [callers EXCEPT ![t] =
                                 IF cues = <<>> THEN IdleCaller
                                 ELSE [pc |-> "move_to_front", id |-> id,
                                       cues |-> cues]]
          ELSE UNCHANGED <<main, reinforce_calls, callers>>
    /\ last_recall' = NoRecall
    /\ UNCHANGED <<aliases, lexicon, uuid_seq, clock, last_expand, steps>>
    /\ UNCHANGED process_vars
    /\ UNCHANGED <<last_call, queue, worker, query_cache, read_only,file_hashes,tenants,job_log>>

\* reinforce_memory, "Move to front for each cue": the thread moves the id
\* in the set of its next cue, and returns true after the last cue
CountReinforceMove(t) ==
    /\ callers[t].pc = "move_to_front"
    /\ main' = [main EXCEPT !.cue_index =
                    move_to_front_each(@, callers[t].id,
                                       <<Head(callers[t].cues)>>)]
    /\ callers' = [callers EXCEPT ![t] =
                      IF Tail(callers[t].cues) = <<>> THEN IdleCaller
                      ELSE [@ EXCEPT !.cues = Tail(@)]]
    /\ last_recall' = NoRecall
    /\ UNCHANGED <<aliases, lexicon, uuid_seq, clock, last_expand, steps>>
    /\ UNCHANGED process_vars
    /\ UNCHANGED <<last_call, reinforce_calls, queue, worker, query_cache,
                   read_only,file_hashes,tenants,job_log>>

\* a caller deletes a memory: the calls that succeeded on it are forgotten
CountDelete ==
    /\ \E id \in CountIds :
          /\ id \in DOMAIN main.memories
          /\ main' = delete_memory(main, id).e
          /\ reinforce_calls' = Remove(reinforce_calls, id)
    /\ last_recall' = NoRecall
    /\ UNCHANGED <<aliases, lexicon, uuid_seq, clock, last_expand, steps>>
    /\ UNCHANGED process_vars
    /\ UNCHANGED <<last_call, callers, queue, worker, query_cache, read_only,file_hashes,tenants,job_log>>

\* a caller recalls the cue "a" with limit 1, with or without auto-reinforce
CountRecall ==
    /\ \E auto_reinforce \in BOOLEAN :
          LET query == << <<<<"a">>, FromInt(1)>> >>
              found == recall_weighted_unsorted(main, query, auto_reinforce,
                                                <<>>, FALSE, clock).r
          IN  /\ auto_reinforce =>
                    \A i \in 1..Len(found) :
                        main.memories[found[i].memory_id].reinforcement_count
                            < MaxReinforcements(found[i].memory_id)
              /\ \E out \in recall(main, << <<"a">> >>, 1, auto_reinforce, clock) :
                    /\ main' = out.e
                    /\ last_recall' = [called |-> TRUE, query_cues |-> query,
                                       limit |-> 1, min_intersection |-> <<>>,
                                       before |-> main, after |-> out.e,
                                       results |-> out.r]
              /\ reinforce_calls' = IF auto_reinforce
                                    THEN CountedEach(reinforce_calls, found)
                                    ELSE reinforce_calls
    /\ UNCHANGED <<aliases, lexicon, uuid_seq, clock, last_expand, steps>>
    /\ UNCHANGED process_vars
    /\ UNCHANGED <<last_call, callers, queue, worker, query_cache, read_only,file_hashes,tenants,job_log>>

NextCount ==
    \/ CountUpsert
    \/ \E t \in Threads : CountReinforceTouch(t)
    \/ \E t \in Threads : CountReinforceMove(t)
    \/ CountDelete
    \/ CountRecall

SpecCount == InitCount /\ [][NextCount]_vars

----------------------------------------------------------------------------
(* The contracts of the engine's operations: each call on                  *)
(* ProjectContext.main is recorded with its arguments, the engine before   *)
(* and after it, and its return value.                                     *)

\* SpecCalls is followed for MaxCalls calls
MaxCalls == 3

\* cue lists as callers pass them: no cue, "a", "A " (the same cue once
\* lower-cased and trimmed), "b", a blank cue, two cues
CallCueLists ==
    {<<>>,
     << <<"a">> >>,
     << <<"A", " ">> >>,
     << <<"b">> >>,
     << <<" ">> >>,
     << <<"b">>, <<"a">> >>}

\* the content add is called with, and the content upsert is called with
AddedContent == "x"
UpsertedContent == "y"

\* SystemTime::now() at a call: every call is later than the one before
Now == clock + steps + 1

\* the record of a call
Called(op, id, content, cues, reinforce, before, out) ==
    [op |-> op, id |-> id, content |-> content, cues |-> cues,
     reinforce |-> reinforce, before |-> before, after |-> out.e, ret |-> out.r]

CallAdd ==
    /\ steps < MaxCalls
    /\ \E cues \in CallCueLists :
          LET id  == Uuid(uuid_seq + 1)
              out == add_memory(main, id, AddedContent, cues, EmptyMap, Now)
          IN  /\ main' = out.e
              /\ last_call' = Called("add", id, AddedContent, cues, FALSE, main, out)
    /\ uuid_seq' = uuid_seq + 1
    /\ steps' = steps + 1
    /\ UNCHANGED <<aliases, lexicon, clock, last_recall, last_expand>>
    /\ UNCHANGED process_vars
    /\ UNCHANGED <<reinforce_calls, callers, queue, worker, query_cache, read_only,file_hashes,tenants,job_log>>

CallUpsert ==
    /\ steps < MaxCalls
    /\ \E id \in TargetIds(main) \ {AbsentId}, cues \in CallCueLists,
          reinforce \in BOOLEAN :
          LET out == upsert_memory_with_id(main, id, UpsertedContent, cues,
                                           EmptyMap, reinforce, Now)
          IN  /\ main' = out.e
              /\ last_call' = Called("upsert", id, UpsertedContent, cues,
                                     reinforce, main, out)
    /\ steps' = steps + 1
    /\ UNCHANGED <<aliases, lexicon, uuid_seq, clock, last_recall, last_expand>>
    /\ UNCHANGED process_vars
    /\ UNCHANGED <<reinforce_calls, callers, queue, worker, query_cache, read_only,file_hashes,tenants,job_log>>

CallAttachCues ==
    /\ steps < MaxCalls
    /\ \E id \in TargetIds(main), cues \in CallCueLists :
          LET out == attach_cues(main, id, cues)
          IN  /\ main' = out.e
              /\ last_call' = Called("attach_cues", id, "", cues, FALSE, main, out)
    /\ steps' = steps + 1
    /\ UNCHANGED <<aliases, lexicon, uuid_seq, clock, last_recall, last_expand>>
    /\ UNCHANGED process_vars
    /\ UNCHANGED <<reinforce_calls, callers, queue, worker, query_cache, read_only,file_hashes,tenants,job_log>>

CallReinforce ==
    /\ steps < MaxCalls
    /\ \E id \in TargetIds(main), cues \in CallCueLists :
          LET out == reinforce_memory(main, id, cues, Now)
          IN  /\ main' = out.e
              /\ last_call' = Called("reinforce", id, "", cues, FALSE, main, out)
    /\ steps' = steps + 1
    /\ UNCHANGED <<aliases, lexicon, uuid_seq, clock, last_recall, last_expand>>
    /\ UNCHANGED process_vars
    /\ UNCHANGED <<reinforce_calls, callers, queue, worker, query_cache, read_only,file_hashes,tenants,job_log>>

CallDelete ==
    /\ steps < MaxCalls
    /\ \E id \in TargetIds(main) :
          LET out == delete_memory(main, id)
          IN  /\ main' = out.e
              /\ last_call' = Called("delete", id, "", <<>>, FALSE, main, out)
    /\ steps' = steps + 1
    /\ UNCHANGED <<aliases, lexicon, uuid_seq, clock, last_recall, last_expand>>
    /\ UNCHANGED process_vars
    /\ UNCHANGED <<reinforce_calls, callers, queue, worker, query_cache, read_only,file_hashes,tenants,job_log>>

NextCalls ==
    \/ CallAdd
    \/ CallUpsert
    \/ CallAttachCues
    \/ CallReinforce
    \/ CallDelete

SpecCalls == Init /\ [][NextCalls]_vars

\* the keys of the index the cues of a list stand for
KeysOf(cues) == {cue_lower(cues[i]) : i \in 1..Len(cues)} \ {<<>>}

\* whether id is the most recent id of the Ordered Set of key
AtTail(e, key, id) ==
    /\ key \in DOMAIN e.cue_index
    /\ e.cue_index[key] # <<>>
    /\ e.cue_index[key][Len(e.cue_index[key])] = id

\* the Ordered Set of key without id, <<>> when there is none
OthersIn(e, key, id) ==
    IF key \in DOMAIN e.cue_index THEN Without(e.cue_index[key], id) ELSE <<>>

\* whether a call left every memory but id as it was, and every Ordered Set
\* as it was but for the position of id
OnlyTouches(before, after, id) ==
    /\ \A other \in (DOMAIN before.memories \cup DOMAIN after.memories) \ {id} :
          /\ other \in DOMAIN before.memories
          /\ other \in DOMAIN after.memories
          /\ after.memories[other] = before.memories[other]
    /\ \A key \in DOMAIN before.cue_index \cup DOMAIN after.cue_index :
          OthersIn(after, key, id) = OthersIn(before, key, id)

\* C12: attach_cues on an absent id returns false and changes nothing; on a
\* present id it adds the cues of the argument the memory does not carry to
\* the memory's cue list and to the Cue Index, leaves the memory's position
\* in the Ordered Sets of the cues it carried unchanged, and returns true
\* iff at least one cue was added.
C12_AttachCues ==
    last_call.op = "attach_cues" =>
        LET before == last_call.before
            after  == last_call.after
            id     == last_call.id
        IN  IF id \notin DOMAIN before.memories
            THEN last_call.ret = FALSE /\ after = before
            ELSE LET carried == CueKeysOf(before.memories[id])
                     added   == KeysOf(last_call.cues) \ carried
                 IN  /\ id \in DOMAIN after.memories
                     /\ CueKeysOf(after.memories[id]) = carried \cup added
                     /\ KeysHolding(after, id) = KeysHolding(before, id) \cup added
                     /\ \A key \in carried :
                           after.cue_index[key] = before.cue_index[key]
                     /\ \A key \in added : AtTail(after, key, id)
                     /\ OnlyTouches(before, after, id)
                     /\ last_call.ret = (added # {})

\* C13: upsert on a present id leaves the stored content, metadata and
\* creation time unchanged; its only effects are those of attach_cues (the
\* memory is indexed under the cues of the argument as well) and, if
\* reinforce is set, of reinforce (the memory is touched and sits at the
\* tail of the Ordered Set of every cue of the argument).  Upsert on an
\* absent id inserts a memory with that id, the given content and cues, at
\* the tail of each cue's Ordered Set.
C13_UpsertFrame ==
    last_call.op = "upsert" =>
        LET before == last_call.before
            after  == last_call.after
            id     == last_call.id
            keys   == KeysOf(last_call.cues)
        IN  /\ last_call.ret = id
            /\ id \in DOMAIN after.memories
            /\ after.memories[id].id = id
            /\ OnlyTouches(before, after, id)
            /\ IF id \in DOMAIN before.memories
               THEN LET old == before.memories[id]
                        new == after.memories[id]
                    IN  /\ new.content = old.content
                        /\ new.metadata = old.metadata
                        /\ new.created_at = old.created_at
                        /\ CueKeysOf(new) = CueKeysOf(old) \cup keys
                        /\ KeysHolding(after, id) = KeysHolding(before, id) \cup keys
                        /\ \A key \in KeysHolding(before, id) \ keys :
                              after.cue_index[key] = before.cue_index[key]
                        /\ \A key \in keys \ KeysHolding(before, id) :
                              AtTail(after, key, id)
                        /\ IF last_call.reinforce
                           THEN /\ new.last_accessed > old.last_accessed
                                /\ \A key \in keys : AtTail(after, key, id)
                           ELSE new.last_accessed = old.last_accessed
               ELSE /\ after.memories[id].content = last_call.content
                    /\ after.memories[id].cues = last_call.cues
                    /\ KeysHolding(after, id) = keys
                    /\ \A key \in keys : AtTail(after, key, id)

\* an upsert with reinforce and another content on a memory that was not
\* the most recent of the cue "a"
C13_Witness ==
    /\ last_call.op = "upsert"
    /\ LET before == last_call.before
           id     == last_call.id
       IN  /\ id \in DOMAIN before.memories
           /\ last_call.reinforce
           /\ before.memories[id].content # last_call.content
           /\ <<"a">> \in KeysOf(last_call.cues)
           /\ <<"a">> \in KeysHolding(before, id)
           /\ ~AtTail(before, <<"a">>, id)

\* the ids that the recalls with the cue lists callers pass, with a limit
\* that drops no result, return from engine e
Recalled(e) ==
    UNION {{out.r[i].memory_id : i \in 1..Len(out.r)} :
              out \in UNION {recall(e, cues, Cardinality(DOMAIN e.memories) + 1,
                                    FALSE, Now) : cues \in CallCueLists}}

\* C14: deleting a present id removes the memory and removes the id from
\* the Ordered Set of every cue, so that get(id) is absent and no recall
\* returns id, and leaves every other memory and the order of the other ids
\* alone; deleting an absent id returns false and changes nothing.
C14_Delete ==
    last_call.op = "delete" =>
        LET before == last_call.before
            after  == last_call.after
            id     == last_call.id
        IN  IF id \in DOMAIN before.memories
            THEN /\ last_call.ret = TRUE
                 /\ id \notin DOMAIN after.memories
                 /\ KeysHolding(after, id) = {}
                 /\ id \notin Recalled(after)
                 /\ OnlyTouches(before, after, id)
            ELSE /\ last_call.ret = FALSE
                 /\ after = before

\* a memory stored with the cue "A " was deleted from the Ordered Set of
\* "a", in which it was neither alone nor the most recent, and the recalls
\* still return the other memory
C14_Witness ==
    /\ last_call.op = "delete"
    /\ last_call.id \in DOMAIN last_call.before.memories
    /\ Contains(last_call.before.memories[last_call.id].cues, <<"A", " ">>)
    /\ <<"a">> \in KeysHolding(last_call.before, last_call.id)
    /\ ~AtTail(last_call.before, <<"a">>, last_call.id)
    /\ Recalled(last_call.after) # {}

\* C15: for a present id and any cue list, reinforce(id, cues) applied a
\* second time leaves the order of every Ordered Set as the first left it;
\* in each cue of the list whose set holds the id, the id sits at the tail
\* after one application and after two.
C15_MoveToEndIdempotence ==
    (last_call.op = "reinforce" /\ last_call.ret = TRUE) =>
        LET once  == last_call.after
            id    == last_call.id
            twice == reinforce_memory(once, id, last_call.cues, Now).e
        IN  /\ twice.cue_index = once.cue_index
            /\ \A key \in KeysOf(last_call.cues) \cap KeysHolding(once, id) :
                  /\ AtTail(once, key, id)
                  /\ AtTail(twice, key, id)
            /\ KeysHolding(once, id) = KeysHolding(last_call.before, id)
            /\ OnlyTouches(last_call.before, once, id)

\* a reinforce with the cues "b" and "a" of a memory that was the oldest of
\* two under the cue "a"
C15_Witness ==
    /\ last_call.op = "reinforce"
    /\ last_call.ret = TRUE
    /\ Len(last_call.cues) = 2
    /\ <<"a">> \in KeysHolding(last_call.before, last_call.id)
    /\ ~AtTail(last_call.before, <<"a">>, last_call.id)
    /\ AtTail(last_call.after, <<"a">>, last_call.id)

----------------------------------------------------------------------------
(* The job queue (src/src/jobs.rs): a bounded channel between the callers  *)
(* of JobQueue::enqueue (the request handlers, the ingester) and the one   *)
(* task that processes the jobs.                                           *)

\* mpsc::channel(1000): the capacity of the buffer
CHANNEL_CAPACITY == 1000

\* the job the add_memory handler enqueues first
TrainJob(memory_id) ==
    [kind |-> "TrainLexiconFromMemory", project_id |-> "default",
     memory_id |-> memory_id]

\* Sender::send: whether the buffer has a free slot
has_capacity(buffer) == Len(buffer) < CHANNEL_CAPACITY

InitQueue ==
    /\ main = CueMapEngine_new
    /\ aliases = CueMapEngine_new
    /\ lexicon = CueMapEngine_new
    /\ uuid_seq = 0
    /\ clock = 0
    /\ last_recall = NoRecall
    /\ last_expand = NoExpand
    /\ steps = 0
    /\ mode = "single"
    /\ proc = "running"
    /\ tick = FALSE
    /\ disk = EmptyDisk
    /\ task = NoTasks
    /\ load_report = "empty"
    /\ projects = {}
    /\ signal = "none"
    /\ last_call = NoCall
    /\ reinforce_calls = EmptyMap
    /\ callers = [t \in Threads |-> IdleCaller]
    /\ queue = <<>>
    /\ worker = IdleWorker
    /\ query_cache = EmptyMap
    /\ read_only = FALSE
    /\ file_hashes = EmptyMap
    /\ tenants = NoTenants
    /\ job_log = NoJobLog

\* JobQueue::enqueue, self.sender.send(job).await: the job goes into the
\* buffer when there is a free slot; when there is none the caller waits
Enqueue(t) ==
    /\ callers[t].pc = "idle"
    /\ LET job == TrainJob(Uuid(1))
       IN  IF has_capacity(queue)
           THEN /\ queue' = Append(queue, job)
                /\ UNCHANGED callers
           ELSE /\ callers' = [callers EXCEPT ![t] = [pc |-> "send", job |-> job]]
                /\ UNCHANGED queue
    /\ UNCHANGED project_vars
    /\ UNCHANGED process_vars
    /\ UNCHANGED <<last_call, reinforce_calls, worker, query_cache, read_only,file_hashes,tenants,job_log>>

\* a waiting send completes once a slot is free; enqueue returns
SendCompletes(t) ==
    /\ callers[t].pc = "send"
    /\ has_capacity(queue)
    /\ queue' = Append(queue, callers[t].job)
    /\ callers' = [callers EXCEPT ![t] = IdleCaller]
    /\ UNCHANGED project_vars
    /\ UNCHANGED process_vars
    /\ UNCHANGED <<last_call, reinforce_calls, worker, query_cache, read_only,file_hashes,tenants,job_log>>

\* rx.recv().await of the job task: the oldest job leaves the buffer
Recv ==
    /\ worker.pc = "recv"
    /\ queue # <<>>
    /\ worker' = [pc |-> "process_job", job |-> Head(queue)]
    /\ queue' = Tail(queue)
    /\ UNCHANGED project_vars
    /\ UNCHANGED process_vars
    /\ UNCHANGED <<last_call, reinforce_calls, callers, query_cache, read_only,file_hashes,tenants,job_log>>

\* process_job returns, whenever it does
Processed ==
    /\ worker.pc = "process_job"
    /\ worker' = IdleWorker
    /\ UNCHANGED project_vars
    /\ UNCHANGED process_vars
    /\ UNCHANGED <<last_call, reinforce_calls, callers, queue, query_cache,
                   read_only,file_hashes,tenants,job_log>>

NextQueue ==
    \/ \E t \in Threads : Enqueue(t)
    \/ \E t \in Threads : SendCompletes(t)
    \/ Recv
    \/ Processed

SpecQueue == InitQueue /\ [][NextQueue]_vars

\* C16: enqueue never waits for buffer space: no caller of enqueue is ever
\* held inside it, however slow the job task is; a job that finds the
\* buffer full is dropped.
C16_EnqueueNonBlocking ==
    \A t \in Threads : callers[t].pc # "send"

----------------------------------------------------------------------------
(* Natural-language tokenizing (nl.rs), cue normalization and validation:  *)
(* a text is a sequence of characters; in a cue the key is one chunk and    *)
(* ":" is a character of its own, as in <<"path", ":", "f">>.              *)

\* char::is_alphanumeric on the alphabet of the model
IsAlphanumeric(ch) == ch \in {"a", "b", "d", "n", "o", "A", "B", "1"}

\* the .map of normalize_text: a character that is not alphanumeric becomes
\* a space
alphanumeric_or_space(s) ==
    [i \in 1..Len(s) |-> IF IsAlphanumeric(s[i]) THEN s[i] ELSE " "]

\* str::split_whitespace: the maximal runs without whitespace, in order
RECURSIVE split_whitespace_from(_, _)
split_whitespace_from(s, word) ==
    IF s = <<>> THEN (IF word = <<>> THEN <<>> ELSE <<word>>)
    ELSE IF IsWhitespace(Head(s))
         THEN (IF word = <<>> THEN <<>> ELSE <<word>>)
              \o split_whitespace_from(Tail(s), <<>>)
         ELSE split_whitespace_from(Tail(s), Append(word, Head(s)))

split_whitespace(s) == split_whitespace_from(s, <<>>)

\* [&str]::join
RECURSIVE join(_, _)
join(words, sep) ==
    IF words = <<>> THEN <<>>
    ELSE IF Len(words) = 1 THEN Head(words)
         ELSE Head(words) \o sep \o join(Tail(words), sep)

\* nl::normalize_text
normalize_text(text) ==
    join(split_whitespace(alphanumeric_or_space(to_lowercase(text))), <<" ">>)

\* nl.rs get_stopwords
STOPWORDS ==
    {<<"t", "h", "e">>, <<"i", "s">>, <<"a", "t">>,
     <<"w", "h", "i", "c", "h">>, <<"o", "n">>, <<"i", "n">>, <<"a">>,
     <<"a", "n">>, <<"a", "n", "d">>, <<"o", "r">>, <<"f", "o", "r">>,
     <<"t", "o">>, <<"o", "f">>, <<"i", "t">>, <<"t", "h", "i", "s">>,
     <<"t", "h", "a", "t">>}

\* the matches of TOKEN_REGEX in a normalized text: its words
find_tokens(normalized) == split_whitespace(normalized)

\* the tokens tokenize_to_cues keeps: no stopword, longer than one character
IsKeptToken(t) == t \notin STOPWORDS /\ Len(t) > 1

\* tokens.windows(2) as phr: cues
RECURSIVE bigrams(_)
bigrams(tokens) ==
    IF Len(tokens) < 2 THEN <<>>
    ELSE << <<"phr", ":">> \o tokens[1] \o <<"_">> \o tokens[2] >>
         \o bigrams(Tail(tokens))

\* nl::tokenize_to_cues
tokenize_to_cues(text) ==
    LET tokens == SelectSeq(find_tokens(normalize_text(text)), IsKeptToken)
    IN  [i \in 1..Len(tokens) |-> <<"tok", ":">> \o tokens[i]] \o bigrams(tokens)

\* str::split(':'): the parts between the colons, empty ones included
RECURSIVE split_colon_from(_, _)
split_colon_from(s, part) ==
    IF s = <<>> THEN <<part>>
    ELSE IF Head(s) = ":"
         THEN <<part>> \o split_colon_from(Tail(s), <<>>)
         ELSE split_colon_from(Tail(s), Append(part, Head(s)))

split_colon(s) == split_colon_from(s, <<>>)

\* normalization::normalize_cue under NormalizationConfig::default(): trim,
\* lowercase, no rewrite rule, then "key:value:value" becomes "key:value"
normalize_cue(raw) ==
    LET current == to_lowercase(trim(raw))
        parts   == split_colon(current)
    IN  IF Len(parts) >= 3 /\ parts[2] = parts[3] /\ parts[2] # <<>>
        THEN join(<<parts[1]>> \o SubSeq(parts, 3, Len(parts)), <<":">>)
        ELSE current

\* the cues of a list, each normalized (the loops of the handlers)
normalize_cues(cues) == [i \in 1..Len(cues) |-> normalize_cue(cues[i])]

\* taxonomy::validate_cues, step 1: key:value with neither part empty
is_key_value(cue) ==
    \E i \in 1..Len(cue) :
        /\ cue[i] = ":"
        /\ \A j \in 1..(i - 1) : cue[j] # ":"
        /\ i > 1
        /\ i < Len(cue)

\* taxonomy::validate_cues under Taxonomy::default(), which restricts
\* neither keys nor values: report.accepted
validate_cues(cues) == SelectSeq(cues, is_key_value)

\* str::starts_with for a prefix "<key>:"
starts_with(s, key) == Len(s) >= 2 /\ s[1] = key /\ s[2] = ":"

\* jobs.rs is_lexicon_trainable
is_lexicon_trainable(cue) ==
    LET lower == to_lowercase(cue)
    IN  /\ ~starts_with(lower, "path")
        /\ ~starts_with(lower, "id")
        /\ ~starts_with(lower, "memory_id")
        /\ ~starts_with(lower, "file")
        /\ ~starts_with(lower, "alias_id")
        /\ ~starts_with(lower, "source")

\* a training that stores the id of the entry as its content
RECURSIVE train_lexicon_id_as_content(_, _, _, _)
train_lexicon_id_as_content(lex, cues, tokens, now) ==
    IF cues = <<>> THEN lex
    ELSE LET lex_id  == <<"cue", ":">> \o Head(cues)
             trained == IF is_lexicon_trainable(Head(cues))
                        THEN upsert_memory_with_id(lex, lex_id, lex_id, tokens,
                                                   <<>>, FALSE, now).e
                        ELSE lex
         IN  train_lexicon_id_as_content(trained, Tail(cues), tokens, now)

\* the loop of Job::TrainLexiconFromMemory and of Job::ExtractAndIngest:
\* each trainable cue is upserted into the Lexicon under id cue:<cue>, with
\* the cue as content and the tokens as cues
RECURSIVE train_lexicon(_, _, _, _)
train_lexicon(lex, cues, tokens, now) ==
    IF cues = <<>> THEN lex
    ELSE LET canonical_cue == Head(cues)
             trained == IF is_lexicon_trainable(canonical_cue)
                        THEN upsert_memory_with_id(lex,
                                 <<"cue", ":">> \o canonical_cue, canonical_cue,
                                 tokens, <<>>, FALSE, now).e
                        ELSE lex
         IN  train_lexicon(trained, Tail(cues), tokens, now)

----------------------------------------------------------------------------
(* The job task (jobs.rs process_job), the POST /memories handler and the  *)
(* Ingester that feed it.                                                  *)

LlmProposeJob(memory_id, content) == [kind |-> "LlmProposeCues", project_id |-> "default", memory_id |-> memory_id, content |-> content]

ExtractJob(memory_id, content, file_path) == [kind |-> "ExtractAndIngest", project_id |-> "main", memory_id |-> memory_id, content |-> content, file_path |-> file_path]

VerifyJob(file_path, valid_memory_ids) == [kind |-> "VerifyFile", project_id |-> "main", file_path |-> file_path, valid_memory_ids |-> valid_memory_ids]

\* the jobs of a list are sent one after the other; each send finds a slot
can_enqueue(buffer, jobs) == Len(buffer) + Len(jobs) <= CHANNEL_CAPACITY

\* single-tenant add_memory (POST /memories): 403 in read-only mode;
\* otherwise the cues are normalized and validated, the memory is added and
\* the two background jobs are enqueued
ApiAddMemory(content, cues) ==
    IF read_only
    THEN /\ last_call' = [op |-> "add_memory", status |-> 403,
                          before |-> main, after |-> main]
         /\ UNCHANGED <<main, uuid_seq, queue>>
    ELSE LET accepted  == validate_cues(normalize_cues(cues))
             memory_id == Uuid(uuid_seq + 1)
             out       == add_memory(main, memory_id, content, accepted,
                                     EmptyMap, Now)
             jobs      == <<TrainJob(memory_id),
                            LlmProposeJob(memory_id, content)>>
         IN  /\ can_enqueue(queue, jobs)
             /\ main' = out.e
             /\ uuid_seq' = uuid_seq + 1
             /\ queue' = queue \o jobs
             /\ last_call' = [op |-> "add_memory", status |-> 200,
                              id |-> memory_id, content |-> content,
                              cues |-> accepted, before |-> main,
                              after |-> out.e]

\* Sha256 of a content, as a hex string: distinct contents of the model
\* have distinct digests
sha256_hex(bytes) == <<"#">> \o bytes

\* the id the Ingester gives the chunk of a file: file:<path_norm>:<hash>
chunk_memory_id(path_norm, chunk) ==
    <<"file", ":">> \o path_norm \o <<":">> \o sha256_hex(chunk)

\* Ingester::process_file_path for a file read as a sequence of chunks: a
\* file whose hash is the one last seen is skipped; otherwise one
\* ExtractAndIngest per chunk and then VerifyFile with the chunks' ids
process_file_path(path, chunks) ==
    LET path_norm == to_lowercase(path)
        hash      == sha256_hex(join(chunks, <<>>))
        ids       == [i \in 1..Len(chunks) |->
                         chunk_memory_id(path_norm, chunks[i])]
        jobs      == [i \in 1..Len(chunks) |->
                         ExtractJob(ids[i], chunks[i], path_norm)]
                     \o <<VerifyJob(path_norm, ids)>>
    IN  /\ ~(path_norm \in DOMAIN file_hashes /\ file_hashes[path_norm] = hash)
        /\ can_enqueue(queue, jobs)
        /\ file_hashes' = Put(file_hashes, path_norm, hash)
        /\ queue' = queue \o jobs

\* Ingester::delete_file_path: VerifyFile with no valid id
delete_file_path(path) ==
    LET path_norm == to_lowercase(path)
        jobs      == <<VerifyJob(path_norm, <<>>)>>
    IN  /\ can_enqueue(queue, jobs)
        /\ file_hashes' = Remove(file_hashes, path_norm)
        /\ queue' = queue \o jobs

\* Job::TrainLexiconFromMemory
ProcessTrainLexicon ==
    /\ worker.pc = "process_job"
    /\ worker.job.kind = "TrainLexiconFromMemory"
    /\ LET memory_id == worker.job.memory_id
       IN  IF memory_id \in DOMAIN main.memories
           THEN LET memory == main.memories[memory_id]
                    tokens == tokenize_to_cues(memory.content)
                IN  lexicon' = IF tokens = <<>> THEN lexicon
                               ELSE train_lexicon(lexicon, memory.cues,
                                                  tokens, Now)
           ELSE UNCHANGED lexicon
    /\ worker' = IdleWorker
    /\ UNCHANGED <<main, aliases, uuid_seq, clock, last_recall, last_expand,
                   steps>>
    /\ UNCHANGED process_vars
    /\ UNCHANGED <<last_call, reinforce_calls, callers, queue, query_cache,
                   read_only, file_hashes,tenants,job_log>>

\* what the LLM proposes for a content in Job::LlmProposeCues; no cue
\* stands as well for an LLM that is not configured or fails
LlmProposedCues == {<<>>, << <<"topic", ":", "b">> >>}

\* Job::LlmProposeCues
ProcessLlmProposeCues ==
    /\ worker.pc = "process_job"
    /\ worker.job.kind = "LlmProposeCues"
    /\ \E proposed_cues \in LlmProposedCues :
          LET accepted == validate_cues(normalize_cues(proposed_cues))
              tokens   == tokenize_to_cues(worker.job.content)
          IN  IF accepted # <<>>
              THEN /\ main' = attach_cues(main, worker.job.memory_id,
                                          accepted).e
                   /\ lexicon' = IF tokens # <<>>
                                 THEN train_lexicon(lexicon, accepted, tokens,
                                                    Now)
                                 ELSE lexicon
              ELSE UNCHANGED <<main, lexicon>>
    /\ worker' = IdleWorker
    /\ UNCHANGED <<aliases, uuid_seq, clock, last_recall, last_expand, steps>>
    /\ UNCHANGED process_vars
    /\ UNCHANGED <<last_call, reinforce_calls, callers, queue, query_cache,
                   read_only, file_hashes,tenants,job_log>>

\* what llm::extract_facts answers for a chunk: the cues it extracted, or
\* an error (which stands as well for an LLM that is not configured)
LlmExtractedCues == {<<>>, << <<"topic", ":", "a">> >>}

\* Job::ExtractAndIngest: the chunk is upserted under its id with the
\* extracted cues, path:<file_path> and source:agent; the Lexicon is trained
ProcessExtractAndIngest ==
    /\ worker.pc = "process_job"
    /\ worker.job.kind = "ExtractAndIngest"
    /\ \/ UNCHANGED <<main, lexicon>>
       \/ \E cues \in LlmExtractedCues :
             LET extracted_content == worker.job.content
                 final_cues == cues \o << <<"path", ":">> \o worker.job.file_path,
                                          <<"source", ":", "agent">> >>
                 tokens == tokenize_to_cues(extracted_content)
             IN  /\ main' = upsert_memory_with_id(main, worker.job.memory_id,
                                extracted_content, final_cues, EmptyMap,
                                FALSE, Now).e
                 /\ lexicon' = train_lexicon(lexicon, final_cues, tokens, Now)
    /\ worker' = IdleWorker
    /\ UNCHANGED <<aliases, uuid_seq, clock, last_recall, last_expand, steps>>
    /\ UNCHANGED process_vars
    /\ UNCHANGED <<last_call, reinforce_calls, callers, queue, query_cache,
                   read_only, file_hashes,tenants,job_log>>

----------------------------------------------------------------------------
(* Job::VerifyFile. The job looks the path cue up with DashMap::get, whose *)
(* Ref holds the read lock of the entry's shard for the whole `if let`     *)
(* block, and calls delete_memory inside it; delete_memory takes each of   *)
(* the memory's cues with DashMap::get_mut, which needs the write lock of  *)
(* the shard. The locks are not reentrant.                                 *)

\* SpecVerify follows MaxFileEvents events of the Ingester and the API
MaxFileEvents == 3

\* the file the Ingester watches, and the chunks of the contents it has
FilePaths == {<<"f">>}
FileContents ==
    {<< <<"d", "b">> >>,
     << <<"d", "b">>, <<"n", "o">> >>,
     << <<"n", "o">> >>}

\* a memory a client stores under the file's path cue
TaggedContent == <<"d", "b">>
TaggedCues == << <<"path", ":", "f">> >>

\* the shard of the Cue Index a key falls into: the model gives every key a
\* shard of its own, the least sharing the hash of the key can give
determine_shard(key) == key

\* whether the job task can take the write lock of the shard of a key: not
\* while it holds a Ref into that shard
can_write_lock(w, key) ==
    ~(w.guard # <<>> /\ determine_shard(w.guard[1]) = determine_shard(key))

\* the ids VerifyFile is to delete: under the path cue, file:-prefixed, not
\* valid
stale_memories(e, job) ==
    LET path_cue == <<"path", ":">> \o job.file_path
    IN  IF path_cue \in DOMAIN e.cue_index
        THEN {id \in Range(e.cue_index[path_cue]) :
                 starts_with(id, "file") /\ ~Contains(job.valid_memory_ids, id)}
        ELSE {}

InitVerify == InitQueue

VerifyApiAddMemory ==
    /\ steps < MaxFileEvents
    /\ ApiAddMemory(TaggedContent, TaggedCues)
    /\ steps' = steps + 1
    /\ UNCHANGED <<aliases, lexicon, clock, last_recall, last_expand>>
    /\ UNCHANGED process_vars
    /\ UNCHANGED <<reinforce_calls, callers, worker, query_cache, read_only,
                   file_hashes,tenants,job_log>>

IngesterProcessFile ==
    /\ steps < MaxFileEvents
    /\ \E path \in FilePaths, chunks \in FileContents :
          process_file_path(path, chunks)
    /\ steps' = steps + 1
    /\ UNCHANGED <<main, aliases, lexicon, uuid_seq, clock, last_recall,
                   last_expand>>
    /\ UNCHANGED process_vars
    /\ UNCHANGED <<last_call, reinforce_calls, callers, worker, query_cache,
                   read_only, tenants,job_log>>

IngesterDeleteFile ==
    /\ steps < MaxFileEvents
    /\ \E path \in FilePaths : delete_file_path(path)
    /\ steps' = steps + 1
    /\ UNCHANGED <<main, aliases, lexicon, uuid_seq, clock, last_recall,
                   last_expand>>
    /\ UNCHANGED process_vars
    /\ UNCHANGED <<last_call, reinforce_calls, callers, worker, query_cache,
                   read_only, tenants,job_log>>

\* Job::VerifyFile, the lookup: get_cue_index().get(&path_cue) and
\* get_recent_owned(None); without an entry the job is over. The task
\* keeps the engine it found in `before`, for the record of the call.
VerifyLookup ==
    /\ worker.pc = "process_job"
    /\ worker.job.kind = "VerifyFile"
    /\ LET path_cue == <<"path", ":">> \o worker.job.file_path
       IN  IF path_cue \in DOMAIN main.cue_index
           THEN /\ worker' = [pc |-> "verify", job |-> worker.job,
                              guard |-> <<path_cue>>,
                              current_memories |->
                                  OrderedSet_get_recent(main.cue_index[path_cue], <<>>),
                              deleted_count |-> 0, before |-> main]
                /\ UNCHANGED last_call
           ELSE /\ worker' = IdleWorker
                /\ last_call' = [op |-> "VerifyFile", job |-> worker.job,
                                 before |-> main, after |-> main]
    /\ UNCHANGED project_vars
    /\ UNCHANGED process_vars
    /\ UNCHANGED <<reinforce_calls, callers, queue, query_cache, read_only,
                   file_hashes,tenants,job_log>>

\* Job::VerifyFile, one turn of `for mem_id in current_memories`: a stale
\* id enters delete_memory, which removes it from the store first; after
\* the loop the Ref is dropped and the job is over
VerifyNext ==
    /\ worker.pc = "verify"
    /\ IF worker.current_memories = <<>>
       THEN /\ worker' = IdleWorker
            /\ last_call' = [op |-> "VerifyFile", job |-> worker.job,
                             before |-> worker.before, after |-> main]
            /\ UNCHANGED main
       ELSE LET mem_id == Head(worker.current_memories)
                rest   == [worker EXCEPT !.current_memories = Tail(@)]
            IN  /\ UNCHANGED last_call
                /\ IF /\ starts_with(mem_id, "file")
                      /\ ~Contains(worker.job.valid_memory_ids, mem_id)
                      /\ mem_id \in DOMAIN main.memories
                   THEN /\ main' = [main EXCEPT !.memories = Remove(@, mem_id)]
                        /\ worker' = [pc |-> "delete_memory",
                                      job |-> rest.job, guard |-> rest.guard,
                                      current_memories |-> rest.current_memories,
                                      deleted_count |-> rest.deleted_count,
                                      before |-> rest.before,
                                      memory_id |-> mem_id,
                                      cues |-> main.memories[mem_id].cues]
                   ELSE /\ worker' = rest
                        /\ UNCHANGED main
    /\ UNCHANGED <<aliases, lexicon, uuid_seq, clock, last_recall, last_expand,
                   steps>>
    /\ UNCHANGED process_vars
    /\ UNCHANGED <<reinforce_calls, callers, queue, query_cache, read_only,
                   file_hashes,tenants,job_log>>

\* delete_memory inside VerifyFile, one turn of `for cue in memory.cues`:
\* get_mut waits for the write lock of the cue's shard; after the last cue
\* delete_memory returns true
VerifyDeleteCue ==
    /\ worker.pc = "delete_memory"
    /\ IF worker.cues = <<>>
       THEN /\ worker' = [pc |-> "verify", job |-> worker.job,
                          guard |-> worker.guard,
                          current_memories |-> worker.current_memories,
                          deleted_count |-> worker.deleted_count + 1,
                          before |-> worker.before]
            /\ UNCHANGED main
       ELSE LET key == cue_lower(Head(worker.cues))
            IN  /\ can_write_lock(worker, key)
                /\ main' = [main EXCEPT !.cue_index =
                               remove_from_each(@, worker.memory_id,
                                                <<Head(worker.cues)>>)]
                /\ worker' = [worker EXCEPT !.cues = Tail(@)]
    /\ UNCHANGED <<aliases, lexicon, uuid_seq, clock, last_recall, last_expand,
                   steps>>
    /\ UNCHANGED process_vars
    /\ UNCHANGED <<last_call, reinforce_calls, callers, queue, query_cache,
                   read_only, file_hashes,tenants,job_log>>

\* the steps of the job task
JobTask ==
    \/ Recv
    \/ ProcessTrainLexicon
    \/ ProcessLlmProposeCues
    \/ ProcessExtractAndIngest
    \/ VerifyLookup
    \/ VerifyNext
    \/ VerifyDeleteCue

NextVerify ==
    \/ VerifyApiAddMemory
    \/ IngesterProcessFile
    \/ IngesterDeleteFile
    \/ Recv
    \/ ProcessTrainLexicon
    \/ ProcessLlmProposeCues
    \/ ProcessExtractAndIngest
    \/ VerifyLookup
    \/ VerifyNext
    \/ VerifyDeleteCue

\* the job task is a spawned tokio task: it takes its next step whenever it
\* can
SpecVerify == InitVerify /\ [][NextVerify]_vars /\ WF_vars(JobTask)

\* a VerifyFile job is inside its `if let` block / the last call that
\* ended is a VerifyFile job
VerifyRunning == worker.pc \in {"verify", "delete_memory"}
VerifyEnded == last_call.op = "VerifyFile"

\* what a VerifyFile job that started on engine `before` has left in `e`:
\* no stale id in the store or in any set, every other memory and the
\* order of the other ids of every set as before
Pruned(before, e, job) ==
    LET stale == stale_memories(before, job)
        IsKept(id) == id \notin stale
        WasThere(id) == id \in DOMAIN before.memories
    IN  /\ \A id \in stale :
              /\ id \notin DOMAIN e.memories
              /\ \A k \in DOMAIN e.cue_index : ~Contains(e.cue_index[k], id)
        /\ \A id \in DOMAIN before.memories \ stale :
              /\ id \in DOMAIN e.memories
              /\ e.memories[id] = before.memories[id]
        /\ \A k \in DOMAIN before.cue_index :
              /\ k \in DOMAIN e.cue_index
              /\ SelectSeq(e.cue_index[k], WasThere)
                    = SelectSeq(before.cue_index[k], IsKept)

\* C17: a VerifyFile job ends, and when it has ended none of the memories
\* under path:<file_path> whose id starts with file: and is not in
\* valid_memory_ids remains in the store or in the index (with no valid id:
\* no file: chunk of the file), while every other memory is untouched.
C17_VerifyFilePrunes ==
    /\ [](VerifyEnded =>
             Pruned(last_call.before, last_call.after, last_call.job))
    /\ (VerifyRunning ~> VerifyEnded)

----------------------------------------------------------------------------
(* Lexicon resolution (projects.rs resolve_cues_from_text) after training  *)
(* by the job task.                                                        *)

\* SpecLexicon follows MaxResolveEvents requests
MaxResolveEvents == 3

\* the number of Lexicon entries resolve_cues_from_text recalls
LEXICON_RECALL_LIMIT == 8

\* the contents of the hits, each normalized
canonical_cues_of(results) ==
    [i \in 1..Len(results) |-> normalize_cue(results[i].content)]

\* ProjectContext::resolve_cues_from_text: the possible outcomes
\* [lexicon, query_cache: the Lexicon and the cache after it, r: the cues
\* returned, hit: whether the cache answered]
resolve_cues_from_text(lex, cache, text, now) ==
    LET normalized_text == normalize_text(text)
        tokens == tokenize_to_cues(text)
    IN  IF normalized_text \in DOMAIN cache
        THEN {[lexicon |-> lex, query_cache |-> cache,
               r |-> cache[normalized_text], hit |-> TRUE]}
        ELSE IF tokens = <<>>
             THEN {[lexicon |-> lex, query_cache |-> cache, r |-> <<>>,
                    hit |-> FALSE]}
             ELSE {LET accepted == validate_cues(canonical_cues_of(out.r))
                   IN  [lexicon |-> out.e,
                        query_cache |-> Put(cache, normalized_text, accepted),
                        r |-> accepted, hit |-> FALSE] :
                      out \in recall(lex, tokens, LEXICON_RECALL_LIMIT, TRUE, now)}

\* what clients send: the content "db no" with a canonical cue, with
\* "topic:A " and a path cue, and with a cue that is not key:value; the
\* content "a" (a stopword only) with a canonical cue
LexiconRequests ==
    {[content |-> <<"d", "b", " ", "n", "o">>,
      cues |-> << <<"topic", ":", "a">> >>],
     [content |-> <<"d", "b", " ", "n", "o">>,
      cues |-> << <<"topic", ":", "A", " ">>, <<"path", ":", "f">> >>],
     [content |-> <<"d", "b", " ", "n", "o">>,
      cues |-> << <<"b">> >>],
     [content |-> <<"a">>,
      cues |-> << <<"topic", ":", "b">> >>]}

\* the texts resolved: "db", "Db!" (the same text once normalized), "no a"
\* and "a"
ResolveTexts ==
    {<<"d", "b">>, <<"D", "b", "!">>, <<"n", "o", " ", "a">>, <<"a">>}

\* the ids of the memories whose TrainLexiconFromMemory job is still in the
\* buffer or in the hands of the job task
untrained(buffer, w) ==
    {buffer[i].memory_id : i \in {j \in 1..Len(buffer) :
                                     buffer[j].kind = "TrainLexiconFromMemory"}}
    \cup (IF w.pc = "process_job" /\ w.job.kind = "TrainLexiconFromMemory"
          THEN {w.job.memory_id} ELSE {})

InitLexicon == InitQueue

LexiconApiAddMemory ==
    /\ steps < MaxResolveEvents
    /\ \E req \in LexiconRequests : ApiAddMemory(req.content, req.cues)
    /\ steps' = steps + 1
    /\ UNCHANGED <<aliases, lexicon, clock, last_recall, last_expand>>
    /\ UNCHANGED process_vars
    /\ UNCHANGED <<reinforce_calls, callers, worker, query_cache, read_only,
                   file_hashes,tenants,job_log>>

\* a call of resolve_cues_from_text, recorded with the store, the cache and
\* the untrained memories it found
Resolve ==
    /\ steps < MaxResolveEvents
    /\ \E text \in ResolveTexts :
          \E out \in resolve_cues_from_text(lexicon, query_cache, text, Now) :
              /\ lexicon' = out.lexicon
              /\ query_cache' = out.query_cache
              /\ last_call' = [op |-> "resolve", text |-> text,
                               hit |-> out.hit, ret |-> out.r,
                               main |-> main, cache |-> query_cache,
                               untrained |-> untrained(queue, worker)]
    /\ steps' = steps + 1
    /\ UNCHANGED <<main, aliases, uuid_seq, clock, last_recall, last_expand>>
    /\ UNCHANGED process_vars
    /\ UNCHANGED <<reinforce_calls, callers, queue, worker, read_only,
                   file_hashes,tenants,job_log>>

NextLexicon ==
    \/ LexiconApiAddMemory
    \/ Resolve
    \/ Recv
    \/ ProcessTrainLexicon
    \/ ProcessLlmProposeCues

SpecLexicon == InitLexicon /\ [][NextLexicon]_vars

\* the tok: cues of a text
tokens_of(text) ==
    {c \in Range(tokenize_to_cues(text)) : starts_with(c, "tok")}

\* the cues of a memory that are lexicon-trainable and that the taxonomy
\* accepts
trainable_cues(memory) ==
    {c \in Range(memory.cues) : is_lexicon_trainable(c) /\ is_key_value(c)}

\* the memories a resolve call found trained and sharing a token with its
\* text
TrainedFor(call) ==
    {id \in DOMAIN call.main.memories \ call.untrained :
        tokens_of(call.text) \cap tokens_of(call.main.memories[id].content) # {}}

\* the call returned every trainable cue of every such memory
ReturnsTrained(call) ==
    \A id \in TrainedFor(call) :
        trainable_cues(call.main.memories[id]) \subseteq Range(call.ret)

\* C18: once the TrainLexiconFromMemory job of a memory has been processed,
\* resolve_cues_from_text on a text that shares a token with the memory's
\* content returns every lexicon-trainable cue of the memory the taxonomy
\* accepts, whatever was resolved before the training.
C18_TrainingFeedsResolution ==
    last_call.op = "resolve" => ReturnsTrained(last_call)

\* C18, amended: a resolve call that does not find its normalized text in
\* the query cache returns every such cue; a call that finds it returns
\* what the cache holds, which is what the first call for that normalized
\* text returned.
C18_TrainingFeedsUncachedResolution ==
    last_call.op = "resolve" =>
        IF last_call.hit
        THEN last_call.ret = last_call.cache[normalize_text(last_call.text)]
        ELSE ReturnsTrained(last_call)

C18_Witness ==
    /\ last_call.op = "resolve"
    /\ ~last_call.hit
    /\ \E id \in TrainedFor(last_call) :
          /\ trainable_cues(last_call.main.memories[id]) # {}
          /\ \E c \in Range(last_call.main.memories[id].cues) :
                ~is_lexicon_trainable(c)
    /\ last_call.cache # EmptyMap

----------------------------------------------------------------------------
(* Alias proposal (jobs.rs, Job::ProposeAliases): cues here are sequences  *)
(* of single characters.                                                   *)

\* SpecPropose adds at most MaxTagged memories and runs the job at most
\* MaxProposeRuns times
MaxTagged == 25
MaxProposeRuns == 2

ALIAS_MIN_CUE_MEMORIES == 20
ALIAS_MAX_CUE_MEMORIES == 50000
ALIAS_MAX_CANDIDATES == 1500
ALIAS_SAMPLE_SIZE == 512
\* the shortest cue that is a candidate, and the shortest significant token
MIN_CANDIDATE_LEN == 3
MIN_TOKEN_LEN == 3

\* the characters of the model's cues in byte order
ByteOrder == <<"-", ":", "_", "c", "d", "e", "i", "n", "o", "p", "r", "t", "u", "v">>
byte_of(ch) == CHOOSE i \in 1..Len(ByteOrder) : ByteOrder[i] = ch

\* a < b on strings: byte-wise lexicographic
RECURSIVE str_less(_, _)
str_less(a, b) ==
    IF b = <<>> THEN FALSE
    ELSE IF a = <<>> THEN TRUE
    ELSE IF Head(a) = Head(b) THEN str_less(Tail(a), Tail(b))
    ELSE byte_of(Head(a)) < byte_of(Head(b))

\* str::contains
contains(a, b) ==
    \E i \in 0..(Len(a) - Len(b)) : SubSeq(a, i + 1, i + Len(b)) = b

\* str::split(|c| c == ':' || c == '-' || c == '_')
RECURSIVE split_separators_from(_, _)
split_separators_from(s, part) ==
    IF s = <<>> THEN <<part>>
    ELSE IF Head(s) \in {":", "-", "_"}
         THEN <<part>> \o split_separators_from(Tail(s), <<>>)
         ELSE split_separators_from(Tail(s), Append(part, Head(s)))

\* jobs.rs cue_tokens: the lower-cased parts of at least three characters
IsSignificant(part) == Len(part) >= MIN_TOKEN_LEN
cue_tokens(cue) ==
    LET parts == split_separators_from(cue, <<>>)
    IN  SelectSeq([i \in 1..Len(parts) |-> to_lowercase(parts[i])], IsSignificant)

\* jobs.rs lexical_gate
lexical_gate(a, b) ==
    \/ contains(a, b)
    \/ contains(b, a)
    \/ Range(cue_tokens(a)) \cap Range(cue_tokens(b)) # {}

\* jobs.rs is_canonical_format
is_canonical_format(cue) == is_key_value(cue)

\* jobs.rs choose_canonical
choose_canonical(a, b) ==
    IF is_canonical_format(a) /\ ~is_canonical_format(b)
    THEN [canon |-> a, alias |-> b]
    ELSE IF ~is_canonical_format(a) /\ is_canonical_format(b)
         THEN [canon |-> b, alias |-> a]
         ELSE IF str_less(a, b) THEN [canon |-> a, alias |-> b]
              ELSE [canon |-> b, alias |-> a]

\* ProposeAliases step 1, the filter: the mid-frequency cues with their
\* counts
alias_stats(e) ==
    {[cue |-> k, len |-> OrderedSet_len(e.cue_index[k])] :
        k \in {c \in DOMAIN e.cue_index :
                  /\ Len(c) >= MIN_CANDIDATE_LEN
                  /\ OrderedSet_len(e.cue_index[c]) >= ALIAS_MIN_CUE_MEMORIES
                  /\ OrderedSet_len(e.cue_index[c]) <= ALIAS_MAX_CUE_MEMORIES}}

\* the orders sort_unstable_by(count descending) can leave the cues in,
\* whatever order the iteration over the DashMap had
sorted_stats(stats) ==
    {s \in [1..Cardinality(stats) -> stats] :
        /\ \A i, j \in DOMAIN s : i # j => s[i] # s[j]
        /\ \A i, j \in DOMAIN s : i < j => s[i].len >= s[j].len}

\* skip(drop_count).take(ALIAS_MAX_CANDIDATES), drop_count being 1% of the
\* cues
selected_stats(sorted) ==
    LET drop_count == Len(sorted) \div 100
    IN  Take(SubSeq(sorted, drop_count + 1, Len(sorted)), ALIAS_MAX_CANDIDATES)

\* ProposeAliases step 2: a candidate with its sample
CueCandidate(e, stat) ==
    [cue |-> stat.cue, len |-> stat.len,
     sample |-> Range(OrderedSet_get_recent(e.cue_index[stat.cue],
                                            <<ALIAS_SAMPLE_SIZE>>))]

abs_diff(a, b) == IF a < b THEN b - a ELSE a - b
Max(a, b) == IF a < b THEN b ELSE a

\* ProposeAliases step 3 for one pair: <<>> or the proposal; the tests on
\* f64 ratios are made on the integers: diff / max_len > 0.10,
\* sample_score < 0.90 - 0.15, exact_score >= 0.90
compare_candidates(e, cand_a, cand_b) ==
    LET diff == abs_diff(cand_a.len, cand_b.len)
        max_len == Max(cand_a.len, cand_b.len)
        intersection == Cardinality(cand_a.sample \cap cand_b.sample)
        min_sample_len == Min(Cardinality(cand_a.sample),
                              Cardinality(cand_b.sample))
        items_a == Range(e.cue_index[cand_a.cue])
        items_b == Range(e.cue_index[cand_b.cue])
        exact_intersection == Cardinality(items_a \cap items_b)
        min_len == Min(Cardinality(items_a), Cardinality(items_b))
        chosen == choose_canonical(cand_a.cue, cand_b.cue)
    IN  IF 10 * diff > max_len THEN <<>>
        ELSE IF ~lexical_gate(cand_a.cue, cand_b.cue) THEN <<>>
        ELSE IF min_sample_len = 0 THEN <<>>
        ELSE IF 4 * intersection < 3 * min_sample_len THEN <<>>
        ELSE IF min_len = 0 THEN <<>>
        ELSE IF 10 * exact_intersection >= 9 * min_len
             THEN <<[from |-> chosen.alias, to |-> chosen.canon,
                     score |-> (exact_intersection * Scale) \div min_len,
                     alias_id |-> alias_uuid(chosen.alias, chosen.canon)]>>
             ELSE <<>>

\* the proposals of candidate i with the candidates after it
RECURSIVE compare_with_later(_, _, _, _)
compare_with_later(e, candidates, i, j) ==
    IF j > Len(candidates) THEN <<>>
    ELSE compare_candidates(e, candidates[i], candidates[j])
         \o compare_with_later(e, candidates, i, j + 1)

\* ProposeAliases step 3: the proposals in the order of the candidates
RECURSIVE compare_all(_, _, _)
compare_all(e, candidates, i) ==
    IF i > Len(candidates) THEN <<>>
    ELSE compare_with_later(e, candidates, i, i + 1)
         \o compare_all(e, candidates, i + 1)

\* the content and the cues of a proposed alias
proposed_content(p) ==
    JsonText([k \in {"from", "to", "downweight", "status", "reason"} |->
                 CASE k = "from" -> p.from
                   [] k = "to" -> p.to
                   [] k = "downweight" -> p.score
                   [] k = "status" -> "proposed"
                   [] k = "reason" -> "overlap_analysis"])

proposed_cues(p) ==
    <<<<"type:alias">>, format("from:", p.from), format("to:", p.to),
      <<"status:", "proposed">>, <<"reason:", "overlap_analysis">>,
      format("alias_id:", p.alias_id[2])>>

\* a registration that does not look for the alias_id cue
RECURSIVE register_proposals_again(_, _, _)
register_proposals_again(reg, proposals, now) ==
    IF proposals = <<>> THEN reg
    ELSE LET p == Head(proposals)
         IN  register_proposals_again(
                 upsert_memory_with_id(reg, p.alias_id, proposed_content(p),
                     <<<<"seen:again">>>> \o proposed_cues(p), EmptyMap,
                     TRUE, now).e,
                 Tail(proposals), now)

\* ProposeAliases step 4: a proposal whose alias_id cue is not a key of the
\* registry's index is upserted
RECURSIVE register_proposals(_, _, _)
register_proposals(reg, proposals, now) ==
    IF proposals = <<>> THEN reg
    ELSE LET p == Head(proposals)
             id_cue == format("alias_id:", p.alias_id[2])
             next == IF id_cue \notin DOMAIN reg.cue_index
                     THEN upsert_memory_with_id(reg, p.alias_id,
                              proposed_content(p), proposed_cues(p), EmptyMap,
                              FALSE, now).e
                     ELSE reg
         IN  register_proposals(next, Tail(proposals), now)

\* Job::ProposeAliases: the possible outcomes [aliases, proposals], one for
\* each order the candidates can come in
propose_aliases(e, reg, now) ==
    {LET candidates == [i \in 1..Len(selected_stats(sorted)) |->
                           CueCandidate(e, selected_stats(sorted)[i])]
         proposals == compare_all(e, candidates, 1)
     IN  [aliases |-> register_proposals(reg, proposals, now),
          proposals |-> proposals] :
        sorted \in sorted_stats(alias_stats(e))}

\* the cue lists of the memories a client stores, in the order it stores
\* them: all three cues, the two near-synonyms, one of them, the other
PROD == <<"p", "r", "o", "d">>
PRODUCTION == <<"p", "r", "o", "d", "u", "c", "t", "i", "o", "n">>
ENV_PROD == <<"e", "n", "v", ":", "p", "r", "o", "d">>
TaggedLists ==
    <<<<PROD, PRODUCTION, ENV_PROD>>, <<PROD, PRODUCTION>>, <<PROD>>,
      <<PRODUCTION>>>>

\* the place in TaggedLists of the cue list stored last
last_tagged ==
    IF uuid_seq = 0 THEN 1
    ELSE CHOOSE i \in DOMAIN TaggedLists :
            TaggedLists[i] = main.memories[Uuid(uuid_seq)].cues

\* a client stores a memory (CueMapEngine::add_memory, as the tests do);
\* the runs of the job that are followed find the data unchanged: they come
\* after the last memory is stored
AddTagged ==
    /\ uuid_seq < MaxTagged
    /\ steps = 0
    /\ \E i \in DOMAIN TaggedLists :
          /\ i >= last_tagged
          /\ main' = add_memory(main, Uuid(uuid_seq + 1), AddedContent,
                                TaggedLists[i], EmptyMap, clock).e
    /\ uuid_seq' = uuid_seq + 1
    /\ UNCHANGED <<aliases, lexicon, clock, last_recall, last_expand, steps>>
    /\ UNCHANGED process_vars
    /\ UNCHANGED service_vars

\* process_job(Job::ProposeAliases), recorded with the engine and the
\* registry it found
ProcessProposeAliases ==
    /\ steps < MaxProposeRuns
    /\ \E out \in propose_aliases(main, aliases, Now) :
          /\ aliases' = out.aliases
          /\ last_call' = [op |-> "ProposeAliases", main |-> main,
                           before |-> aliases, after |-> out.aliases,
                           proposals |-> out.proposals]
    /\ steps' = steps + 1
    /\ UNCHANGED <<main, lexicon, uuid_seq, clock, last_recall, last_expand>>
    /\ UNCHANGED process_vars
    /\ UNCHANGED <<reinforce_calls, callers, queue, worker, query_cache,
                   read_only, file_hashes,tenants,job_log>>

NextPropose ==
    \/ AddTagged
    \/ ProcessProposeAliases

SpecPropose == Init /\ [][NextPropose]_vars

\* the (from, to) pairs of a list of proposals
directions(proposals) ==
    {[from |-> proposals[i].from, to |-> proposals[i].to] :
        i \in 1..Len(proposals)}

\* the entries of a registry that map `from` to `to`
entries_for(reg, from, to) ==
    {id \in DOMAIN reg.memories :
        /\ from_str(reg.memories[id].content) # <<>>
        /\ get(from_str(reg.memories[id].content)[1], "from") = <<from>>
        /\ get(from_str(reg.memories[id].content)[1], "to") = <<to>>}

\* a proposal is in the registry once, under the id of its direction, as
\* proposed by overlap analysis
RegisteredOnce(reg, p) ==
    /\ entries_for(reg, p.from, p.to) = {alias_uuid(p.from, p.to)}
    /\ entries_for(reg, p.to, p.from) = {}
    /\ LET data == from_str(reg.memories[alias_uuid(p.from, p.to)].content)[1]
       IN  /\ get(data, "status") = <<"proposed">>
           /\ get(data, "reason") = <<"overlap_analysis">>

\* every memory of the store carries exactly the two near-synonyms
AllTaggedBoth(e) ==
    \A id \in DOMAIN e.memories : e.memories[id].cues = <<PROD, PRODUCTION>>

\* C19: every pair ProposeAliases finds is in the registry once, as
\* proposed by overlap_analysis, under the id of <alias>-><canonical>; the
\* direction is the same in whatever order the cues are compared; the
\* entries the registry had are unchanged and nothing but the proposals is
\* added; a run on unchanged data leaves the registry as it is; 25 memories
\* tagged prod and production give exactly one entry.
C19_ProposalIdempotence ==
    last_call.op = "ProposeAliases" =>
        LET call == last_call
            found == Range(call.proposals)
        IN  /\ \A p \in found : RegisteredOnce(call.after, p)
            /\ \A p \in found :
                  /\ choose_canonical(p.from, p.to)
                        = [canon |-> p.to, alias |-> p.from]
                  /\ choose_canonical(p.to, p.from)
                        = [canon |-> p.to, alias |-> p.from]
            /\ \A out \in propose_aliases(call.main, call.before, Now) :
                  directions(out.proposals) = directions(call.proposals)
            /\ DOMAIN call.after.memories
                  = DOMAIN call.before.memories
                       \cup {p.alias_id : p \in found}
            /\ \A id \in DOMAIN call.before.memories :
                  call.after.memories[id] = call.before.memories[id]
            /\ \A k \in DOMAIN call.before.cue_index :
                  /\ k \in DOMAIN call.after.cue_index
                  /\ SubSeq(call.after.cue_index[k], 1,
                            Len(call.before.cue_index[k]))
                        = call.before.cue_index[k]
            /\ \A out \in propose_aliases(call.main, call.after, Now) :
                  out.aliases = call.after
            /\ (AllTaggedBoth(call.main)
                   /\ Cardinality(DOMAIN call.main.memories) = 25)
                  => Cardinality(DOMAIN call.after.memories) = 1

C19_Witness ==
    /\ last_call.op = "ProposeAliases"
    /\ steps = 2
    /\ AllTaggedBoth(main)
    /\ Cardinality(DOMAIN main.memories) = 25
    /\ Len(last_call.proposals) = 1
    /\ last_call.before = last_call.after
    /\ Cardinality(DOMAIN aliases.memories) = 1

----------------------------------------------------------------------------
(* The HTTP surface of a server started with --load-static                 *)
(* (src/src/api.rs, src/src/main.rs, src/src/multi_tenant.rs).             *)
(* main, aliases, lexicon and query_cache are the ProjectContext of the    *)
(* one project the requests name; in multi-tenant mode it is in `projects` *)
(* once loaded or created, and deleting it drops its context.              *)

\* the requests of SpecStatic are followed for MaxStaticRequests requests
MaxStaticRequests == 3

\* RecallRequest.limit when the request leaves it out
default_limit == 10

\* the project the requests name: "db1"
StaticProjectId == <<"d", "b", "1">>

\* multi_tenant::validate_project_id
validate_project_id(project_id) ==
    /\ ~(Len(project_id) < 3 \/ Len(project_id) > 64)
    /\ \A i \in 1..Len(project_id) :
          IsAlphanumeric(project_id[i]) \/ project_id[i] \in {"-", "_"}

\* api::extract_project_id on the X-Project-ID header, <<>> when absent
extract_project_id(header) ==
    IF header = <<>> THEN [ok |-> FALSE, status |-> 400]
    ELSE IF ~validate_project_id(header[1]) THEN [ok |-> FALSE, status |-> 400]
    ELSE [ok |-> TRUE, id |-> header[1]]

\* MultiTenantEngine::get_or_create_project: the projects after it
get_or_create_project(ps, project_id) ==
    IF project_id \in ps THEN ps ELSE ps \cup {project_id}

\* what a snapshot directory holds for the project: nothing, one memory, or
\* two memories that share a cue, the second one the more recent
LoadedOne ==
    add_memory(CueMapEngine_new, Uuid(1), <<"d", "b">>,
               << <<"topic", ":", "a">> >>, EmptyMap, 1).e

LoadedTwo ==
    add_memory(LoadedOne, Uuid(2), <<"n", "o">>,
               << <<"topic", ":", "a">>, <<"topic", ":", "b">> >>,
               EmptyMap, 2).e

LoadedStates == {CueMapEngine_new, LoadedOne, LoadedTwo}

\* the headers of a multi-tenant request: none, "db" (too short), "db!"
\* (a character that is not allowed) and "db1"
Headers ==
    {<<>>, << <<"d", "b">> >>, << <<"d", "b", "!">> >>, <<StaticProjectId>>}

\* the bodies of POST /recall: cues, an optional query_text, auto_reinforce
RecallRequests ==
    [cues : {<<>>, << <<"topic", ":", "A">> >>, << <<"topic", ":", "b">> >>},
     query_text : {<<>>, << <<"d", "b">> >>},
     auto_reinforce : BOOLEAN]

\* the memory ids and the bodies of PATCH /memories/:id/reinforce
ReinforceIds == {Uuid(1), Uuid(2), Uuid(3)}
ReinforceCues == {<<>>, << <<"topic", ":", "A">> >>}

\* the project and the set of projects, as the handlers record them before
\* and after a request
surface_state ==
    [main |-> main, aliases |-> aliases, lexicon |-> lexicon,
     query_cache |-> query_cache, projects |-> projects]

\* the body of api::recall and of the single-project branch of
\* api::recall_mt on the ProjectContext ctx: the possible outcomes
recall_in_context(ctx, req, now) ==
    UNION { UNION { {[main |-> found.e, aliases |-> expanded.e,
                      lexicon |-> resolved.lexicon,
                      query_cache |-> resolved.query_cache,
                      results |-> found.r] :
                        found \in recall_weighted(ctx.main, expanded.r,
                                     default_limit, req.auto_reinforce,
                                     <<>>, FALSE, now)} :
                    expanded \in expand_query_cues(ctx.aliases,
                                     normalize_cues(req.cues \o resolved.r),
                                     now)} :
            resolved \in IF req.query_text = <<>>
                         THEN {[lexicon |-> ctx.lexicon,
                                query_cache |-> ctx.query_cache, r |-> <<>>]}
                         ELSE resolve_cues_from_text(ctx.lexicon,
                                  ctx.query_cache, req.query_text[1], now)}

\* the same on the project of the single-tenant server
recall_on_project(req, now) ==
    recall_in_context([main |-> main, aliases |-> aliases,
                       lexicon |-> lexicon, query_cache |-> query_cache],
                      req, now)

\* what a recall handler leaves behind
recall_answer(req, out, ps) ==
    /\ main' = out.main
    /\ aliases' = out.aliases
    /\ lexicon' = out.lexicon
    /\ query_cache' = out.query_cache
    /\ projects' = ps
    /\ last_call' = [op |-> "recall", status |-> 200,
                     auto_reinforce |-> req.auto_reinforce,
                     results |-> out.results,
                     before |-> surface_state,
                     after |-> [main |-> out.main, aliases |-> out.aliases,
                                lexicon |-> out.lexicon,
                                query_cache |-> out.query_cache,
                                projects |-> ps]]

\* a handler that answers without touching anything
refuse(op, status) ==
    /\ last_call' = [op |-> op, status |-> status,
                     auto_reinforce |-> FALSE,
                     before |-> surface_state, after |-> surface_state]
    /\ UNCHANGED <<main, aliases, lexicon, query_cache, projects>>

\* what a reinforce handler leaves behind
reinforce_answer(memory_id, cues, ps, now) ==
    LET out == reinforce_memory(main, memory_id, normalize_cues(cues), now)
    IN  /\ main' = out.e
        /\ projects' = ps
        /\ last_call' = [op |-> "reinforce_memory",
                         status |-> IF out.r THEN 200 ELSE 404,
                         auto_reinforce |-> FALSE,
                         before |-> surface_state,
                         after |-> [surface_state EXCEPT !.main = out.e,
                                                         !.projects = ps]]
        /\ UNCHANGED <<aliases, lexicon, query_cache>>

\* api::recall
ApiRecall(req) ==
    \E out \in recall_on_project(req, Now) : recall_answer(req, out, projects)

\* api::reinforce_memory
ApiReinforceMemory(memory_id, cues) ==
    IF read_only THEN refuse("reinforce_memory", 403)
    ELSE reinforce_answer(memory_id, cues, projects, Now)

\* api::add_memory_mt
ApiAddMemoryMt(header, content, cues) ==
    LET project_id == extract_project_id(header)
    IN  IF ~project_id.ok
        THEN refuse("add_memory", project_id.status) /\ UNCHANGED <<uuid_seq, queue>>
        ELSE IF read_only
        THEN refuse("add_memory", 403) /\ UNCHANGED <<uuid_seq, queue>>
        ELSE /\ ApiAddMemory(content, cues)
             /\ projects' = get_or_create_project(projects, project_id.id)
             /\ UNCHANGED <<aliases, lexicon, query_cache>>

\* api::recall_mt, a request that names no list of projects
ApiRecallMt(header, req) ==
    LET project_id == extract_project_id(header)
    IN  IF ~project_id.ok THEN refuse("recall", project_id.status)
        ELSE \E out \in recall_on_project(req, Now) :
                recall_answer(req, out,
                    get_or_create_project(projects, project_id.id))

\* api::reinforce_memory_mt
ApiReinforceMemoryMt(header, memory_id, cues) ==
    LET project_id == extract_project_id(header)
    IN  IF ~project_id.ok THEN refuse("reinforce_memory", project_id.status)
        ELSE reinforce_answer(memory_id, cues,
                 get_or_create_project(projects, project_id.id), Now)

\* api::delete_project with MultiTenantEngine::delete_project: the project
\* removed takes its context with it
ApiDeleteProject(project_id) ==
    IF project_id \in projects
    THEN /\ projects' = projects \ {project_id}
         /\ main' = CueMapEngine_new
         /\ aliases' = CueMapEngine_new
         /\ lexicon' = CueMapEngine_new
         /\ query_cache' = EmptyMap
         /\ last_call' = [op |-> "delete_project", status |-> 200,
                          auto_reinforce |-> FALSE,
                          before |-> surface_state,
                          after |-> [main |-> CueMapEngine_new,
                                     aliases |-> CueMapEngine_new,
                                     lexicon |-> CueMapEngine_new,
                                     query_cache |-> EmptyMap,
                                     projects |-> projects \ {project_id}]]
    ELSE refuse("delete_project", 404)

\* main with --load-static: the project is loaded from the directory, its
\* Alias Registry, Lexicon and cache start empty; in multi-tenant mode
\* load_all registers the project when the directory holds its snapshot
InitStatic ==
    /\ main \in LoadedStates
    /\ aliases = CueMapEngine_new
    /\ lexicon = CueMapEngine_new
    /\ uuid_seq = 2
    /\ clock = 2
    /\ last_recall = NoRecall
    /\ last_expand = NoExpand
    /\ steps = 0
    /\ mode \in {"single", "multi"}
    /\ proc = "running"
    /\ tick = FALSE
    /\ disk = EmptyDisk
    /\ task = NoTasks
    /\ load_report = "empty"
    /\ projects \in {{}, {StaticProjectId}}
    /\ mode = "single" => projects = {}
    /\ (mode = "multi" /\ projects = {}) => main = CueMapEngine_new
    /\ signal = "none"
    /\ last_call = NoCall
    /\ reinforce_calls = EmptyMap
    /\ callers = [t \in Threads |-> IdleCaller]
    /\ queue = <<>>
    /\ worker = IdleWorker
    /\ query_cache = EmptyMap
    /\ read_only = TRUE
    /\ file_hashes = EmptyMap
    /\ tenants = NoTenants
    /\ job_log = NoJobLog

static_unchanged ==
    /\ UNCHANGED <<clock, last_recall, last_expand>>
    /\ UNCHANGED <<mode, proc, tick, disk, task, load_report, signal>>
    /\ UNCHANGED <<reinforce_calls, callers, worker, read_only, file_hashes,tenants,job_log>>

StaticAddMemory ==
    /\ steps < MaxStaticRequests
    /\ mode = "single"
    /\ \E req \in LexiconRequests : ApiAddMemory(req.content, req.cues)
    /\ steps' = steps + 1
    /\ UNCHANGED <<aliases, lexicon, query_cache, projects>>
    /\ static_unchanged

StaticRecall ==
    /\ steps < MaxStaticRequests
    /\ mode = "single"
    /\ \E req \in RecallRequests : ApiRecall(req)
    /\ steps' = steps + 1
    /\ UNCHANGED <<uuid_seq, queue>>
    /\ static_unchanged

StaticReinforceMemory ==
    /\ steps < MaxStaticRequests
    /\ mode = "single"
    /\ \E memory_id \in ReinforceIds, cues \in ReinforceCues :
          ApiReinforceMemory(memory_id, cues)
    /\ steps' = steps + 1
    /\ UNCHANGED <<uuid_seq, queue>>
    /\ static_unchanged

StaticAddMemoryMt ==
    /\ steps < MaxStaticRequests
    /\ mode = "multi"
    /\ \E header \in Headers, req \in LexiconRequests :
          ApiAddMemoryMt(header, req.content, req.cues)
    /\ steps' = steps + 1
    /\ static_unchanged

StaticRecallMt ==
    /\ steps < MaxStaticRequests
    /\ mode = "multi"
    /\ \E header \in Headers, req \in RecallRequests : ApiRecallMt(header, req)
    /\ steps' = steps + 1
    /\ UNCHANGED <<uuid_seq, queue>>
    /\ static_unchanged

StaticReinforceMemoryMt ==
    /\ steps < MaxStaticRequests
    /\ mode = "multi"
    /\ \E header \in Headers, memory_id \in ReinforceIds, cues \in ReinforceCues :
          ApiReinforceMemoryMt(header, memory_id, cues)
    /\ steps' = steps + 1
    /\ UNCHANGED <<uuid_seq, queue>>
    /\ static_unchanged

StaticDeleteProject ==
    /\ steps < MaxStaticRequests
    /\ mode = "multi"
    /\ \E project_id \in {StaticProjectId, <<"d", "b">>} :
          ApiDeleteProject(project_id)
    /\ steps' = steps + 1
    /\ UNCHANGED <<uuid_seq, queue>>
    /\ static_unchanged

NextStatic ==
    \/ StaticAddMemory
    \/ StaticRecall
    \/ StaticReinforceMemory
    \/ StaticAddMemoryMt
    \/ StaticRecallMt
    \/ StaticReinforceMemoryMt
    \/ StaticDeleteProject

SpecStatic == InitStatic /\ [][NextStatic]_vars

\* a request that asks for a change: add memory, reinforce, recall with
\* auto_reinforce, delete project; a request refused for its X-Project-ID
\* header (400) has not reached the write
WriteAttempt(call) ==
    /\ \/ call.op \in {"add_memory", "reinforce_memory", "delete_project"}
       \/ call.op = "recall" /\ call.auto_reinforce
    /\ call.status # 400

\* C20: with --load-static every write attempt through the HTTP surface
\* (add memory, reinforce, recall with auto_reinforce, delete project), in
\* single-tenant and in multi-tenant mode, is answered 403 and leaves the
\* state of every Project and the set of Projects unchanged
C20_ReadOnlyRefusesWrites ==
    (read_only /\ WriteAttempt(last_call)) =>
        /\ last_call.status = 403
        /\ last_call.after = last_call.before

----------------------------------------------------------------------------
(* The Multi-tenant Dispatcher (src/src/multi_tenant.rs) with the handlers *)
(* and the jobs that work on the project a request names.                  *)
(* tenants.projects is the DashMap of the MultiTenantEngine, id -> Arc;    *)
(* tenants.contexts is what each Arc points to.                            *)

\* the requests and engine calls of SpecTenants are followed for
\* MaxTenantEvents events; the job task runs besides
MaxTenantEvents == 2

\* the two projects the callers name: "db1" and "dbb"
TenantIds == {<<"d", "b", "1">>, <<"d", "b", "b">>}

\* ProjectContext::new
ProjectContext_new ==
    [main |-> CueMapEngine_new, aliases |-> CueMapEngine_new,
     lexicon |-> CueMapEngine_new, query_cache |-> EmptyMap]

\* Arc::new: an Arc no project points to
Arc_new(t) == CHOOSE a \in 1..(Cardinality(DOMAIN t.contexts) + 1) : a \notin DOMAIN t.contexts

\* an absent project of a MultiTenantEngine that would be given the Arc of
\* a project it holds already
MultiTenantEngine_get_or_create_project_shared(t, project_id) ==
    IF project_id \in DOMAIN t.projects
    THEN [tenants |-> t, arc |-> t.projects[project_id]]
    ELSE IF t.projects = EmptyMap
    THEN [tenants |-> [projects |-> Put(t.projects, project_id, Arc_new(t)),
                       contexts |-> Put(t.contexts, Arc_new(t), ProjectContext_new)],
          arc |-> Arc_new(t)]
    ELSE LET held == t.projects[CHOOSE q \in DOMAIN t.projects : TRUE]
         IN  [tenants |-> [t EXCEPT !.projects = Put(@, project_id, held)],
              arc |-> held]

\* MultiTenantEngine::get_or_create_project: the engine after it and the
\* Arc returned
MultiTenantEngine_get_or_create_project(t, project_id) ==
    IF project_id \in DOMAIN t.projects
    THEN [tenants |-> t, arc |-> t.projects[project_id]]
    ELSE [tenants |-> [projects |-> Put(t.projects, project_id, Arc_new(t)),
                       contexts |-> Put(t.contexts, Arc_new(t), ProjectContext_new)],
          arc |-> Arc_new(t)]

\* MultiTenantEngine::get_project: Option<Arc<ProjectContext>>
MultiTenantEngine_get_project(t, project_id) ==
    IF project_id \in DOMAIN t.projects THEN <<t.projects[project_id]>> ELSE <<>>

\* MultiTenantEngine::delete_project: the entry is removed, and the context
\* is dropped with its last Arc
MultiTenantEngine_delete_project(t, project_id) ==
    IF project_id \in DOMAIN t.projects
    THEN LET ps == Remove(t.projects, project_id)
             live == {ps[q] : q \in DOMAIN ps}
         IN  [tenants |-> [projects |-> ps,
                           contexts |-> [a \in live |-> t.contexts[a]]],
              r |-> TRUE]
    ELSE [tenants |-> t, r |-> FALSE]

\* a write through an Arc: the context it points to is replaced
store_through(t, arc, ctx) == [t EXCEPT !.contexts[arc] = ctx]

\* CueMapEngine::get_memory
get_memory(e, id) == IF id \in DOMAIN e.memories THEN <<e.memories[id]>> ELSE <<>>

\* CueMapEngine::get_stats
get_stats(e) ==
    [total_memories |-> Cardinality(DOMAIN e.memories),
     total_cues |-> Cardinality(DOMAIN e.cue_index),
     cues |-> DOMAIN e.cue_index]

\* what the callers of a project send with POST /memories
TenantRequests ==
    {[content |-> <<"d", "b">>, cues |-> << <<"topic", ":", "a">> >>],
     [content |-> <<"n", "o">>, cues |-> << <<"topic", ":", "A", " ">>, <<"b">> >>]}

\* the cue list of the engine calls and of reinforce
TenantCueLists == {<< <<"topic", ":", "b">>, <<"topic", ":", "a">> >>}

\* the bodies of POST /recall: a cue or a query_text, auto_reinforce or not
TenantRecallRequests ==
    {[cues |-> << <<"topic", ":", "A">> >>, query_text |-> <<>>,
      auto_reinforce |-> b] : b \in BOOLEAN}
    \cup {[cues |-> <<>>, query_text |-> << <<"d", "b">> >>,
           auto_reinforce |-> b] : b \in BOOLEAN}

\* the memory ids a caller may name: ids given out, and a key of its own
TenantTargets == {Uuid(n) : n \in 1..uuid_seq} \cup KeyIds

\* the job of a project
for_project(job, project_id) == [job EXCEPT !.project_id = project_id]

\* main with --multi-tenant and an empty snapshots directory
InitTenants ==
    /\ main = CueMapEngine_new
    /\ aliases = CueMapEngine_new
    /\ lexicon = CueMapEngine_new
    /\ uuid_seq = 0
    /\ clock = 0
    /\ last_recall = NoRecall
    /\ last_expand = NoExpand
    /\ steps = 0
    /\ mode = "multi"
    /\ proc = "running"
    /\ tick = FALSE
    /\ disk = EmptyDisk
    /\ task = NoTasks
    /\ load_report = "empty"
    /\ projects = {}
    /\ signal = "none"
    /\ last_call = NoCall
    /\ reinforce_calls = EmptyMap
    /\ callers = [t \in Threads |-> IdleCaller]
    /\ queue = <<>>
    /\ worker = IdleWorker
    /\ query_cache = EmptyMap
    /\ read_only = FALSE
    /\ file_hashes = EmptyMap
    /\ tenants = NoTenants
    /\ job_log = NoJobLog

\* what every event of SpecTenants leaves alone
tenants_unchanged ==
    /\ UNCHANGED <<main, aliases, lexicon, clock, last_recall, last_expand>>
    /\ UNCHANGED process_vars
    /\ UNCHANGED <<reinforce_calls, callers, query_cache, read_only, file_hashes,
                   job_log>>

\* the record of an event on a project
tenant_call(op, project_id, after) ==
    [op |-> op, project |-> project_id, before |-> tenants, after |-> after]

\* api::add_memory_mt with a valid X-Project-ID
TenantAddMemory ==
    /\ steps < MaxTenantEvents
    /\ \E project_id \in TenantIds, req \in TenantRequests :
          LET got       == MultiTenantEngine_get_or_create_project(tenants, project_id)
              ctx       == got.tenants.contexts[got.arc]
              accepted  == validate_cues(normalize_cues(req.cues))
              memory_id == Uuid(uuid_seq + 1)
              out       == add_memory(ctx.main, memory_id, req.content,
                                      accepted, EmptyMap, Now)
              after     == store_through(got.tenants, got.arc,
                                         [ctx EXCEPT !.main = out.e])
              jobs      == <<for_project(TrainJob(memory_id), project_id),
                             for_project(LlmProposeJob(memory_id, req.content),
                                         project_id)>>
          IN  /\ can_enqueue(queue, jobs)
              /\ tenants' = after
              /\ queue' = queue \o jobs
              /\ last_call' = tenant_call("add_memory", project_id, after)
    /\ uuid_seq' = uuid_seq + 1
    /\ steps' = steps + 1
    /\ UNCHANGED worker
    /\ tenants_unchanged

\* upsert_memory_with_id, attach_cues and delete_memory on the main engine
\* of a project, and api::reinforce_memory_mt
TenantEngineCall ==
    /\ steps < MaxTenantEvents
    /\ \E project_id \in TenantIds, id \in TenantTargets, cues \in TenantCueLists, op \in {"upsert", "attach_cues", "reinforce", "delete"} :
          LET got == MultiTenantEngine_get_or_create_project(tenants, project_id)
              ctx == got.tenants.contexts[got.arc]
              e   == CASE op = "upsert" ->
                            upsert_memory_with_id(ctx.main, id, <<"n", "o">>,
                                cues, <<>>, FALSE, Now).e
                       [] op = "attach_cues" -> attach_cues(ctx.main, id, cues).e
                       [] op = "reinforce" ->
                            reinforce_memory(ctx.main, id,
                                             normalize_cues(cues), Now).e
                       [] op = "delete" -> delete_memory(ctx.main, id).e
              after == store_through(got.tenants, got.arc,
                                     [ctx EXCEPT !.main = e])
          IN  /\ tenants' = after
              /\ last_call' = tenant_call(op, project_id, after)
    /\ steps' = steps + 1
    /\ UNCHANGED <<uuid_seq, queue, worker>>
    /\ tenants_unchanged

\* api::recall_mt with a valid X-Project-ID and no list of projects
TenantRecall ==
    /\ steps < MaxTenantEvents
    /\ \E project_id \in TenantIds, req \in TenantRecallRequests :
          LET got == MultiTenantEngine_get_or_create_project(tenants, project_id)
              ctx == got.tenants.contexts[got.arc]
          IN  \E out \in recall_in_context(ctx, req, Now) :
                 LET after == store_through(got.tenants, got.arc,
                                  [main |-> out.main, aliases |-> out.aliases,
                                   lexicon |-> out.lexicon,
                                   query_cache |-> out.query_cache])
                 IN  /\ tenants' = after
                     /\ last_call' = tenant_call("recall", project_id, after)
    /\ steps' = steps + 1
    /\ UNCHANGED <<uuid_seq, queue, worker>>
    /\ tenants_unchanged

\* api::delete_project
TenantDeleteProject ==
    /\ steps < MaxTenantEvents
    /\ \E project_id \in TenantIds :
          LET after == MultiTenantEngine_delete_project(tenants, project_id).tenants
          IN  /\ tenants' = after
              /\ last_call' = tenant_call("delete_project", project_id, after)
    /\ steps' = steps + 1
    /\ UNCHANGED <<uuid_seq, queue, worker>>
    /\ tenants_unchanged

\* Job::TrainLexiconFromMemory and Job::LlmProposeCues of a multi-tenant
\* server: the provider looks the project of the job up; without it, and
\* without the memory, nothing is done
TenantProcessJob ==
    /\ worker.pc = "process_job"
    /\ LET job == worker.job
           got == MultiTenantEngine_get_project(tenants, job.project_id)
       IN  IF got = <<>>
           THEN /\ UNCHANGED tenants
                /\ last_call' = tenant_call(job.kind, job.project_id, tenants)
           ELSE LET ctx == tenants.contexts[got[1]]
                IN  \E llm_cues \in LlmProposedCues :
                       LET accepted == validate_cues(normalize_cues(llm_cues))
                           present  == job.memory_id \in DOMAIN ctx.main.memories
                           tokens   == IF job.kind = "LlmProposeCues"
                                       THEN tokenize_to_cues(job.content)
                                       ELSE IF present
                                       THEN tokenize_to_cues(
                                                ctx.main.memories[job.memory_id].content)
                                       ELSE <<>>
                           trained  == IF job.kind = "LlmProposeCues"
                                       THEN accepted
                                       ELSE IF present
                                       THEN ctx.main.memories[job.memory_id].cues
                                       ELSE <<>>
                           e        == IF job.kind = "LlmProposeCues" /\ accepted # <<>>
                                       THEN attach_cues(ctx.main, job.memory_id,
                                                        accepted).e
                                       ELSE ctx.main
                           lex      == IF tokens # <<>>
                                       THEN train_lexicon(ctx.lexicon, trained,
                                                          tokens, Now)
                                       ELSE ctx.lexicon
                           after    == store_through(tenants, got[1],
                                           [ctx EXCEPT !.main = e, !.lexicon = lex])
                       IN  /\ tenants' = after
                           /\ last_call' = tenant_call(job.kind, job.project_id, after)
    /\ worker' = IdleWorker
    /\ UNCHANGED <<uuid_seq, steps, queue>>
    /\ tenants_unchanged

\* JobQueue::new, the receive of the loop
TenantRecv ==
    /\ worker.pc = "recv"
    /\ queue # <<>>
    /\ worker' = [pc |-> "process_job", job |-> Head(queue)]
    /\ queue' = Tail(queue)
    /\ UNCHANGED <<uuid_seq, steps, last_call, tenants,job_log>>
    /\ tenants_unchanged

NextTenants ==
    \/ TenantAddMemory
    \/ TenantEngineCall
    \/ TenantRecall
    \/ TenantDeleteProject
    \/ TenantRecv
    \/ TenantProcessJob

SpecTenants == InitTenants /\ [][NextTenants]_vars

\* the context a request of the project would work on
context_of(t, project_id) ==
    IF project_id \in DOMAIN t.projects
    THEN t.contexts[t.projects[project_id]]
    ELSE ProjectContext_new

\* what the project answers: recall on its engine and through POST /recall
\* (without auto_reinforce), get for every id and stats
Observed(t, project_id) ==
    LET ctx == context_of(t, project_id)
    IN  [recall |-> [cues \in TenantCueLists |->
                        {out.r : out \in recall(ctx.main, cues, default_limit,
                                                FALSE, 0)}],
         recall_mt |-> [req \in {r \in TenantRecallRequests : ~r.auto_reinforce} |->
                           {out.results : out \in recall_in_context(ctx, req, 0)}],
         get |-> [id \in TenantTargets |-> get_memory(ctx.main, id)],
         stats |-> get_stats(ctx.main)]

\* C21: for two distinct project ids A and B, no write (add, upsert,
\* attach_cues, reinforce, recall with auto_reinforce, delete, a job, the
\* removal of the project) applied to Project A changes the result of any
\* recall, get or stats in Project B, nor B's context
C21_ProjectIsolation ==
    last_call.op # "none" =>
        \A other \in TenantIds \ {last_call.project} :
            /\ Observed(last_call.after, other) = Observed(last_call.before, other)
            /\ context_of(last_call.after, other) = context_of(last_call.before, other)
            /\ other \in DOMAIN last_call.before.projects
                  <=> other \in DOMAIN last_call.after.projects

\* a job of one project has changed that project (what it answers is not
\* what it answered before) while the other project holds memories
C21_Witness ==
    /\ last_call.op \in {"LlmProposeCues", "TrainLexiconFromMemory"}
    /\ Observed(last_call.after, last_call.project)
          # Observed(last_call.before, last_call.project)
    /\ \E other \in TenantIds \ {last_call.project} :
          /\ other \in DOMAIN tenants.projects
          /\ context_of(tenants, other).main.memories # EmptyMap
          /\ context_of(tenants, other).lexicon.memories # EmptyMap

----------------------------------------------------------------------------
(* Grounded selection (src/src/grounding.rs).                              *)

\* select_memories is applied to ranked lists of up to MaxResults results
\* and to budgets of up to MaxBudget tokens
MaxResults == 6
MaxBudget == 4

\* the number of exclusions select_memories reports
EXCLUDED_TOP == 5

\* GroundingEngine::estimate_tokens: ceil(len / 4.0)
estimate_tokens(content) ==
    IF Len(content) % 4 = 0 THEN Len(content) \div 4
    ELSE Len(content) \div 4 + 1

\* a test that looks at the result alone, not at what was selected before it
fits_alone(current_tokens, tokens, token_budget) == tokens <= token_budget

\* the test of the greedy selection
fits(current_tokens, tokens, token_budget) ==
    current_tokens + tokens <= token_budget

\* the SelectedItem of a result that is selected as number `rank`
SelectedItem(result, tokens, rank) ==
    [memory_id |-> result.memory_id, content |-> result.content,
     score |-> result.score,
     source |-> IF "source" \in DOMAIN result.metadata
                THEN result.metadata["source"] ELSE "unknown",
     estimated_tokens |-> tokens, rank |-> rank]

\* the ExcludedItem of a result, with what it needs and what is left
ExcludedItem(result, tokens, left) ==
    [memory_id |-> result.memory_id, score |-> result.score,
     needs |-> tokens, has |-> left]

\* the loop of select_memories over the results still to be seen
RECURSIVE select_loop(_, _, _, _, _)
select_loop(results, selected, excluded_top, current_tokens, token_budget) ==
    IF results = <<>>
    THEN [selected |-> selected, excluded_top |-> excluded_top]
    ELSE LET result == Head(results)
             tokens == estimate_tokens(result.content)
         IN  IF fits(current_tokens, tokens, token_budget)
             THEN select_loop(Tail(results),
                      Append(selected,
                             SelectedItem(result, tokens, Len(selected) + 1)),
                      excluded_top, current_tokens + tokens, token_budget)
             ELSE select_loop(Tail(results), selected,
                      IF Len(excluded_top) < EXCLUDED_TOP
                      THEN Append(excluded_top,
                               ExcludedItem(result, tokens,
                                            token_budget - current_tokens))
                      ELSE excluded_top,
                      current_tokens, token_budget)

\* GroundingEngine::select_memories
select_memories(results, token_budget) ==
    select_loop(results, <<>>, <<>>, 0, token_budget)

\* a content of n bytes
ContentOfLen(n) == [i \in 1..n |-> "a"]

\* the lengths of the contents: 0, 1 and 3 tokens, one of them rounded up
ContentLens == {0, 4, 9}

\* the ranked result of position i (of n) with a content of n bytes: the
\* scores go down with the position
RankedResult(i, len) ==
    [memory_id |-> Uuid(i), content |-> ContentOfLen(len),
     score |-> FromInt(MaxResults + 1 - i), metadata |-> EmptyMap]

\* the ranked lists handed to select_memories
RankedLists ==
    UNION {{[i \in 1..n |-> RankedResult(i, lens[i])] :
               lens \in [1..n -> ContentLens]} : n \in 0..MaxResults}

\* the inputs are drawn before select_memories is applied to them
InitSelect ==
    /\ main = CueMapEngine_new
    /\ aliases = CueMapEngine_new
    /\ lexicon = CueMapEngine_new
    /\ uuid_seq = 0
    /\ clock = 0
    /\ last_recall = NoRecall
    /\ last_expand = NoExpand
    /\ steps = 0
    /\ mode = "single"
    /\ proc = "running"
    /\ tick = FALSE
    /\ disk = EmptyDisk
    /\ task = NoTasks
    /\ load_report = "empty"
    /\ projects = {}
    /\ signal = "none"
    /\ \E results \in RankedLists, token_budget \in 0..MaxBudget :
          last_call = [op |-> "input", results |-> results,
                       token_budget |-> token_budget]
    /\ reinforce_calls = EmptyMap
    /\ callers = EmptyMap
    /\ queue = <<>>
    /\ worker = IdleWorker
    /\ query_cache = EmptyMap
    /\ read_only = FALSE
    /\ file_hashes = EmptyMap
    /\ tenants = NoTenants
    /\ job_log = NoJobLog

SelectMemories ==
    /\ last_call.op = "input"
    /\ LET out == select_memories(last_call.results, last_call.token_budget)
       IN  last_call' = [op |-> "select_memories",
                         results |-> last_call.results,
                         token_budget |-> last_call.token_budget,
                         selected |-> out.selected,
                         excluded_top |-> out.excluded_top]
    /\ steps' = steps + 1
    /\ UNCHANGED <<main, aliases, lexicon, uuid_seq, clock, last_recall,
                   last_expand>>
    /\ UNCHANGED process_vars
    /\ UNCHANGED <<reinforce_calls, callers, queue, worker, query_cache,
                   read_only, file_hashes, tenants,job_log>>

NextSelect == SelectMemories

SpecSelect == InitSelect /\ [][NextSelect]_vars

\* the sum of the estimated tokens of the first n items
RECURSIVE TokensOf(_, _)
TokensOf(items, n) ==
    IF n = 0 THEN 0
    ELSE TokensOf(items, n - 1) + estimate_tokens(items[n].content)

\* the positions of the results whose id is among the items
PositionsIn(results, items) ==
    {i \in 1..Len(results) :
        \E k \in 1..Len(items) : items[k].memory_id = results[i].memory_id}

\* the tokens of the results selected among the first n
RECURSIVE TakenBefore(_, _, _)
TakenBefore(results, chosen, n) ==
    IF n = 0 THEN 0
    ELSE TakenBefore(results, chosen, n - 1)
         + (IF n \in chosen THEN estimate_tokens(results[n].content) ELSE 0)

\* the ids of a list of items, in order
IdsOf(items) == [k \in 1..Len(items) |-> items[k].memory_id]

\* the ids of the results at the given positions, in rank order
RECURSIVE IdsAt(_, _, _)
IdsAt(results, positions, n) ==
    IF n = 0 THEN <<>>
    ELSE IdsAt(results, positions, n - 1)
         \o (IF n \in positions THEN <<results[n].memory_id>> ELSE <<>>)

\* C22: the estimated tokens (ceil(len(content)/4)) of the items
\* select_memories selects sum to at most token_budget; the selected items
\* are a subsequence of the input in rank order; a result is selected
\* exactly when its tokens fit in the budget remaining at its turn; at most
\* 5 excluded items are reported, the first ones that did not fit
C22_GroundingBudget ==
    last_call.op = "select_memories" =>
        LET results  == last_call.results
            budget   == last_call.token_budget
            selected == last_call.selected
            excluded == last_call.excluded_top
            chosen   == PositionsIn(results, selected)
            left_out == (1..Len(results)) \ chosen
            reported == PositionsIn(results, excluded)
        IN  /\ TokensOf(selected, Len(selected)) <= budget
            /\ IdsOf(selected) = IdsAt(results, chosen, Len(results))
            /\ \A k \in 1..Len(selected) :
                  /\ selected[k].estimated_tokens
                        = estimate_tokens(selected[k].content)
                  /\ \E i \in chosen : /\ results[i].memory_id = selected[k].memory_id
                                       /\ results[i].content = selected[k].content
            /\ \A i \in 1..Len(results) :
                  i \in chosen <=>
                     estimate_tokens(results[i].content)
                        <= budget - TakenBefore(results, chosen, i - 1)
            /\ Len(excluded) <= EXCLUDED_TOP
            /\ reported \subseteq left_out
            /\ IdsOf(excluded) = IdsAt(results, reported, Len(results))
            /\ Len(excluded) = Min(EXCLUDED_TOP, Cardinality(left_out))
            /\ \A i \in left_out : \A j \in reported : i < j => i \in reported

\* a list of which a result did not fit, a later one was selected, and more
\* than 5 were left out, with the budget used up entirely
C22_Witness ==
    /\ last_call.op = "select_memories"
    /\ LET results == last_call.results
           chosen  == PositionsIn(results, last_call.selected)
       IN  /\ \E i \in 1..Len(results) : \E j \in chosen : i \notin chosen /\ i < j
           /\ TokensOf(last_call.selected, Len(last_call.selected))
                 = last_call.token_budget
           /\ last_call.token_budget > 0
    /\ Len(last_call.excluded_top) = EXCLUDED_TOP

----------------------------------------------------------------------------
(* normalize_cue under any NormalizationConfig (src/src/normalization.rs). *)
(* A rewrite rule of the model has a literal pattern: a regex without      *)
(* metacharacters, which matches where the text contains it.               *)

\* normalize_cue_with is applied to every raw cue of up to MaxCueLen
\* characters
MaxCueLen == 7

\* Regex::replace_all for a literal pattern: the matches are taken from the
\* left and do not overlap
RECURSIVE replace_all(_, _, _)
replace_all(s, pattern, replace) ==
    IF Len(s) < Len(pattern) THEN s
    ELSE IF SubSeq(s, 1, Len(pattern)) = pattern
    THEN replace \o replace_all(SubSeq(s, Len(pattern) + 1, Len(s)),
                                pattern, replace)
    ELSE <<Head(s)>> \o replace_all(Tail(s), pattern, replace)

\* the loop over config.rewrite_rules: [current, applied_rules]
RECURSIVE apply_rewrite_rules(_, _, _)
apply_rewrite_rules(rules, current, applied_rules) ==
    IF rules = <<>> THEN [current |-> current, applied_rules |-> applied_rules]
    ELSE LET rule    == Head(rules)
             new_val == replace_all(current, rule.pattern, rule.replace)
         IN  IF contains(current, rule.pattern) /\ new_val # current
             THEN apply_rewrite_rules(Tail(rules), new_val,
                                      Append(applied_rules, rule.name))
             ELSE apply_rewrite_rules(Tail(rules), current, applied_rules)

\* normalization::normalize_cue: [normalized, applied_rules]
normalize_cue_with(raw, config) ==
    LET trimmed   == IF config.trim THEN trim(raw) ELSE raw
        lowered   == IF config.lowercase THEN to_lowercase(trimmed) ELSE trimmed
        rewritten == apply_rewrite_rules(config.rewrite_rules, lowered, <<>>)
        parts     == split_colon(rewritten.current)
    IN  IF Len(parts) >= 3 /\ parts[2] = parts[3] /\ parts[2] # <<>>
        THEN [normalized |-> join(<<parts[1]>> \o SubSeq(parts, 3, Len(parts)),
                                  <<":">>),
              applied_rules |-> Append(rewritten.applied_rules, "dedupe_prefix")]
        ELSE [normalized |-> rewritten.current,
              applied_rules |-> rewritten.applied_rules]

\* NormalizationConfig::default()
NormalizationConfig_default ==
    [lowercase |-> TRUE, trim |-> TRUE, rewrite_rules |-> <<>>]

\* the configs: the default; neither trim nor lowercase; the default with a
\* rule that replaces every space by an underscore
NormalizationConfigs ==
    {NormalizationConfig_default,
     [lowercase |-> FALSE, trim |-> FALSE, rewrite_rules |-> <<>>],
     [lowercase |-> TRUE, trim |-> TRUE,
      rewrite_rules |-> <<[name |-> "replace_space", pattern |-> <<" ">>,
                           replace |-> <<"_">>]>>]}

\* the characters of the raw cues
CueAlphabet == {"a", "A", ":", " "}

\* the raw cues: every text of up to MaxCueLen characters
RawCues == UNION {[1..n -> CueAlphabet] : n \in 0..MaxCueLen}

\* the inputs are drawn before normalize_cue is applied to them
InitNormalize ==
    /\ main = CueMapEngine_new
    /\ aliases = CueMapEngine_new
    /\ lexicon = CueMapEngine_new
    /\ uuid_seq = 0
    /\ clock = 0
    /\ last_recall = NoRecall
    /\ last_expand = NoExpand
    /\ steps = 0
    /\ mode = "single"
    /\ proc = "running"
    /\ tick = FALSE
    /\ disk = EmptyDisk
    /\ task = NoTasks
    /\ load_report = "empty"
    /\ projects = {}
    /\ signal = "none"
    /\ \E raw \in RawCues, config \in NormalizationConfigs :
          last_call = [op |-> "input", raw |-> raw, config |-> config]
    /\ reinforce_calls = EmptyMap
    /\ callers = EmptyMap
    /\ queue = <<>>
    /\ worker = IdleWorker
    /\ query_cache = EmptyMap
    /\ read_only = FALSE
    /\ file_hashes = EmptyMap
    /\ tenants = NoTenants
    /\ job_log = NoJobLog

\* normalize_cue applied to a raw cue, and applied to what it returned
NormalizeCue ==
    /\ last_call.op = "input"
    /\ LET once  == normalize_cue_with(last_call.raw, last_call.config)
           twice == normalize_cue_with(once.normalized, last_call.config)
       IN  last_call' = [op |-> "normalize_cue", raw |-> last_call.raw,
                         config |-> last_call.config,
                         normalized |-> once.normalized,
                         applied_rules |-> once.applied_rules,
                         again |-> twice.normalized]
    /\ steps' = steps + 1
    /\ UNCHANGED <<main, aliases, lexicon, uuid_seq, clock, last_recall,
                   last_expand>>
    /\ UNCHANGED process_vars
    /\ UNCHANGED <<reinforce_calls, callers, queue, worker, query_cache,
                   read_only, file_hashes, tenants,job_log>>

NextNormalize == NormalizeCue

SpecNormalize == InitNormalize /\ [][NextNormalize]_vars

\* C23: for every raw cue and every normalization config, normalize_cue
\* applied to its own output returns that output unchanged, including for
\* inputs of the form k:v:v:v and for configs with rewrite rules
C23_NormalizationIdempotence ==
    last_call.op = "normalize_cue" => last_call.again = last_call.normalized

----------------------------------------------------------------------------
(* Shutdown with jobs in the queue (src/src/persistence.rs                 *)
(* setup_shutdown_handler, src/src/jobs.rs JobQueue::new, src/src/api.rs). *)
(* The handlers and the job task run as long as the process does.          *)

\* POST /memories is followed for MaxShutdownAdds requests
MaxShutdownAdds == 2

\* a single-tenant server that has started on an empty data directory: the
\* shutdown handler waits for its signal, the job task for a job
InitShutdown ==
    /\ main = CueMapEngine_new
    /\ aliases = CueMapEngine_new
    /\ lexicon = CueMapEngine_new
    /\ uuid_seq = 0
    /\ clock = 0
    /\ last_recall = NoRecall
    /\ last_expand = NoExpand
    /\ steps = 0
    /\ mode = "single"
    /\ proc = "running"
    /\ tick = FALSE
    /\ disk = EmptyDisk
    /\ task = [periodic |-> IdleTask("waiting"), shutdown |-> IdleTask("waiting")]
    /\ load_report = "empty"
    /\ projects = {}
    /\ signal = "none"
    /\ last_call = NoCall
    /\ reinforce_calls = EmptyMap
    /\ callers = [t \in Threads |-> IdleCaller]
    /\ queue = <<>>
    /\ worker = IdleWorker
    /\ query_cache = EmptyMap
    /\ read_only = FALSE
    /\ file_hashes = EmptyMap
    /\ tenants = NoTenants
    /\ job_log = NoJobLog

\* api::add_memory, whenever the process runs
ShutdownAddMemory ==
    /\ proc = "running"
    /\ steps < MaxShutdownAdds
    /\ \E req \in LexiconRequests : ApiAddMemory(req.content, req.cues)
    /\ steps' = steps + 1
    /\ UNCHANGED <<aliases, lexicon, clock, last_recall, last_expand>>
    /\ UNCHANGED process_vars
    /\ UNCHANGED <<reinforce_calls, callers, worker, query_cache, read_only,
                   file_hashes, tenants,job_log>>

\* the job task, whenever the process runs
ShutdownRecv == proc = "running" /\ Recv

ShutdownTrainLexicon == proc = "running" /\ ProcessTrainLexicon

ShutdownLlmProposeCues == proc = "running" /\ ProcessLlmProposeCues

NextShutdown ==
    \/ ShutdownAddMemory
    \/ ShutdownRecv
    \/ ShutdownTrainLexicon
    \/ ShutdownLlmProposeCues
    \/ ReceiveSignal
    \/ Capture("shutdown")
    \/ Create("shutdown")
    \/ Write("shutdown")
    \/ Rename("shutdown")
    \/ Exit

SpecShutdown == InitShutdown /\ [][NextShutdown]_vars

\* the shutdown handler has taken its snapshot of the engine, or the
\* process has ended through it
FinalSnapshotTaken ==
    /\ signal # "none"
    /\ \/ task.shutdown.pc \in {"create", "write", "rename", "exit"}
       \/ proc = "down"

\* no job is in the buffer or in the hands of the job task
QueueDrained == queue = <<>> /\ worker = IdleWorker

\* C24: on shutdown no new job is accepted and every job already enqueued
\* is processed to completion before the final snapshot is taken: from the
\* moment the final snapshot is taken no accepted job is unprocessed
C24_ShutdownDrainsQueue == FinalSnapshotTaken => QueueDrained

----------------------------------------------------------------------------
(* Writes and reads of one engine by several threads. add_memory and the   *)
(* new-id branch of upsert_memory_with_id insert the memory into the       *)
(* Memory Store and release it before they index its cues, one cue at a    *)
(* time; attach_cues holds the memory's guard while it indexes. get_memory *)
(* and the candidate lookup of recall are single map reads.                *)

\* the writes and reads of SpecVisible are followed for MaxVisibleEvents calls
MaxVisibleEvents == 3

\* the cue lists the writers of SpecVisible pass
VisibleCueLists == {<< <<"a">> >>, << <<"a">>, <<"b">> >>}

\* the ids a thread can ask for: the ids callers choose, and the ids
\* add_memory has returned (no thread is still inside the call that made it)
KnownIds ==
    (KeyIds \cup {Uuid(n) : n \in 1..uuid_seq})
    \ {callers[t].id : t \in {u \in Threads : callers[u].pc = "index"
                                               /\ callers[u].op = "add_memory"}}

InitVisible == InitCount

\* what SpecVisible leaves alone
visible_unchanged ==
    /\ UNCHANGED <<aliases, lexicon, clock, last_recall, last_expand>>
    /\ UNCHANGED process_vars
    /\ UNCHANGED <<reinforce_calls, queue, worker, query_cache, read_only,
                   file_hashes, tenants,job_log>>

\* add_memory, "Store memory": the memory, with its cues, goes into the store
VisibleAddStore(t) ==
    /\ callers[t].pc = "idle"
    /\ steps < MaxVisibleEvents
    /\ \E cues \in VisibleCueLists :
          LET id == Uuid(uuid_seq + 1)
              memory == [Memory_new(id, "x", EmptyMap, Now) EXCEPT !.cues = cues]
          IN  /\ main' = [main EXCEPT !.memories = Put(@, id, memory)]
              /\ callers' = [callers EXCEPT ![t] =
                                [pc |-> "index", op |-> "add_memory",
                                 id |-> id, cues |-> cues]]
    /\ uuid_seq' = uuid_seq + 1
    /\ steps' = steps + 1
    /\ UNCHANGED last_call
    /\ visible_unchanged

\* upsert_memory_with_id: a present id attaches the cues under the memory's
\* guard; a new id is inserted into the store ("Insert new")
VisibleUpsertStore(t) ==
    /\ callers[t].pc = "idle"
    /\ steps < MaxVisibleEvents
    /\ \E id \in KeyIds, cues \in VisibleCueLists :
          IF id \in DOMAIN main.memories
          THEN /\ main' = upsert_memory_with_id(main, id, "x", cues, EmptyMap,
                                                FALSE, Now).e
               /\ UNCHANGED callers
          ELSE LET memory == [Memory_new(id, "x", EmptyMap, Now)
                                 EXCEPT !.cues = cues]
               IN  /\ main' = [main EXCEPT !.memories = Put(@, id, memory)]
                   /\ callers' = [callers EXCEPT ![t] =
                                     [pc |-> "index", op |-> "upsert",
                                      id |-> id, cues |-> cues]]
    /\ steps' = steps + 1
    /\ UNCHANGED <<uuid_seq, last_call>>
    /\ visible_unchanged

\* "Index by cues": the writer indexes its next cue, and returns the id
\* after the last one
VisibleIndex(t) ==
    /\ callers[t].pc = "index"
    /\ main' = [main EXCEPT !.cue_index =
                    index_by_cues(@, callers[t].id, <<Head(callers[t].cues)>>)]
    /\ callers' = [callers EXCEPT ![t] =
                      IF Tail(callers[t].cues) = <<>> THEN IdleCaller
                      ELSE [@ EXCEPT !.cues = Tail(callers[t].cues)]]
    /\ UNCHANGED <<uuid_seq, steps, last_call>>
    /\ visible_unchanged

\* a thread calls get_memory(id) and keeps what it returned
VisibleGetMemory(t) ==
    /\ callers[t].pc = "idle"
    /\ steps < MaxVisibleEvents
    /\ \E id \in KnownIds :
          LET got == get_memory(main, id)
          IN  /\ callers' = [callers EXCEPT ![t] =
                               IF got = <<>> THEN IdleCaller
                               ELSE [pc |-> "got", id |-> id,
                                     memory |-> got[1]]]
              /\ last_call' = [op |-> "get_memory", id |-> id,
                               found |-> got # <<>>]
    /\ steps' = steps + 1
    /\ UNCHANGED <<main, uuid_seq>>
    /\ visible_unchanged

\* the thread that was given the memory then starts a recall with one of the
\* memory's cues: the candidates are the members of the cue's Ordered Set
VisibleRecall(t) ==
    /\ callers[t].pc = "got"
    /\ \E cue \in {c \in Range(callers[t].memory.cues) : cue_lower(c) # <<>>} :
          last_call' = [op |-> "recall_after_get", id |-> callers[t].id,
                        cue |-> cue,
                        found |-> /\ cue_lower(cue) \in DOMAIN main.cue_index
                                  /\ Contains(main.cue_index[cue_lower(cue)],
                                              callers[t].id)]
    /\ callers' = [callers EXCEPT ![t] = IdleCaller]
    /\ UNCHANGED <<main, uuid_seq, steps>>
    /\ visible_unchanged

NextVisible ==
    \E t \in Threads :
       \/ VisibleAddStore(t)
       \/ VisibleUpsertStore(t)
       \/ VisibleIndex(t)
       \/ VisibleGetMemory(t)
       \/ VisibleRecall(t)

SpecVisible == InitVisible /\ [][NextVisible]_vars

\* C25: write visibility ordering. Once get_memory(id) has returned a memory
\* written by add or upsert, a recall started afterwards with any one of
\* that memory's cues finds id in that cue's Ordered Set
C25_WriteVisibilityOrdering ==
    last_call.op = "recall_after_get" => last_call.found

----------------------------------------------------------------------------
(* Reinforcement from several threads. reinforce_memory touches the memory *)
(* under the memory's guard and then moves the id in the Ordered Set of    *)
(* each cue, each move under the guard of that cue's entry; recall with    *)
(* auto_reinforce searches and then calls reinforce_memory for each        *)
(* result, with the query cues.                                            *)

\* the reinforce and recall calls of SpecConverge are followed for
\* MaxConvergeCalls calls
MaxConvergeCalls == 2

ConvergeIds == {<<"key", 1>>, <<"key", 2>>, <<"key", 3>>}

\* the engine the calls start from: "a" holds the three ids and "b" two of
\* them, oldest first
ConvergeEngine ==
    LET e1 == upsert_memory_with_id(CueMapEngine_new, <<"key", 1>>, "x",
                                    << <<"a">> >>, EmptyMap, FALSE, 0).e
        e2 == upsert_memory_with_id(e1, <<"key", 2>>, "x",
                                    << <<"a">>, <<"b">> >>, EmptyMap, FALSE, 0).e
    IN  upsert_memory_with_id(e2, <<"key", 3>>, "x",
                              << <<"a">>, <<"b">> >>, EmptyMap, FALSE, 0).e

\* the cue lists the callers pass
ConvergeCueLists == {<< <<"a">> >>, << <<"b">> >>, << <<"a">>, <<"b">> >>}

\* what the moves applied so far were: per cue the ids moved and the id moved
\* last, and whether a move was applied while another call was in progress
NoMoves ==
    [op |-> "reinforce",
     moved |-> [key \in DOMAIN ConvergeEngine.cue_index |-> {}],
     last |-> [key \in DOMAIN ConvergeEngine.cue_index |-> <<>>],
     overlapped |-> FALSE]

InitConverge ==
    /\ main = ConvergeEngine
    /\ aliases = CueMapEngine_new
    /\ lexicon = CueMapEngine_new
    /\ uuid_seq = 0
    /\ clock = 0
    /\ last_recall = NoRecall
    /\ last_expand = NoExpand
    /\ steps = 0
    /\ mode = "single"
    /\ proc = "running"
    /\ tick = FALSE
    /\ disk = EmptyDisk
    /\ task = NoTasks
    /\ load_report = "empty"
    /\ projects = {}
    /\ signal = "none"
    /\ last_call = NoMoves
    /\ reinforce_calls = EmptyMap
    /\ callers = [t \in Threads |-> IdleCaller]
    /\ queue = <<>>
    /\ worker = IdleWorker
    /\ query_cache = EmptyMap
    /\ read_only = FALSE
    /\ file_hashes = EmptyMap
    /\ tenants = NoTenants
    /\ job_log = NoJobLog

\* what SpecConverge leaves alone
converge_unchanged ==
    /\ UNCHANGED <<aliases, lexicon, uuid_seq, clock, last_recall, last_expand>>
    /\ UNCHANGED process_vars
    /\ UNCHANGED <<reinforce_calls, queue, worker, query_cache, read_only,
                   file_hashes, tenants,job_log>>

\* the thread after "Update last accessed" for id: at its first cue, or, with
\* no cue to move in, at the next result
after_touch(id, cues, results) ==
    IF cues # <<>>
    THEN [pc |-> "move_to_front", id |-> id, cues |-> cues, just_cues |-> cues,
          results |-> results]
    ELSE IF results # <<>>
         THEN [pc |-> "auto_reinforce", just_cues |-> cues, results |-> results]
         ELSE IdleCaller

\* POST /memories/:id/reinforce: reinforce_memory, "Update last accessed";
\* an absent id returns false
ConvergeReinforce(t) ==
    /\ callers[t].pc = "idle"
    /\ steps < MaxConvergeCalls
    /\ \E id \in ConvergeIds \cup {AbsentId}, cues \in ConvergeCueLists :
          IF id \in DOMAIN main.memories
          THEN /\ main' = [main EXCEPT !.memories[id] = touch(@, Now)]
               /\ callers' = [callers EXCEPT ![t] = after_touch(id, cues, <<>>)]
          ELSE UNCHANGED <<main, callers>>
    /\ steps' = steps + 1
    /\ UNCHANGED last_call
    /\ converge_unchanged

\* recall_weighted with auto_reinforce up to "Auto-reinforce": the results
\* of the search and the normalized query cues
ConvergeRecall(t) ==
    /\ callers[t].pc = "idle"
    /\ steps < MaxConvergeCalls
    /\ \E query \in ConvergeCueLists :
          LET weighted == [i \in 1..Len(query) |-> <<query[i], FromInt(1)>>]
              cues == normalize_query_cues(main, weighted)
              results == recall_weighted_unsorted(main, weighted, FALSE, <<>>,
                                                  FALSE, Now).r
          IN  callers' = [callers EXCEPT ![t] =
                 IF results = <<>> THEN IdleCaller
                 ELSE [pc |-> "auto_reinforce",
                       just_cues |-> [i \in 1..Len(cues) |-> cues[i][1]],
                       results |-> [i \in 1..Len(results) |->
                                       results[i].memory_id]]]
    /\ steps' = steps + 1
    /\ UNCHANGED <<main, last_call>>
    /\ converge_unchanged

\* "Auto-reinforce", the next result: reinforce_memory, "Update last accessed"
ConvergeAutoReinforce(t) ==
    /\ callers[t].pc = "auto_reinforce"
    /\ LET id == Head(callers[t].results)
           rest == Tail(callers[t].results)
       IN  IF id \in DOMAIN main.memories
           THEN /\ main' = [main EXCEPT !.memories[id] = touch(@, Now)]
                /\ callers' = [callers EXCEPT ![t] =
                                  after_touch(id, callers[t].just_cues, rest)]
           ELSE /\ UNCHANGED main
                /\ callers' = [callers EXCEPT ![t] =
                                  IF rest = <<>> THEN IdleCaller
                                  ELSE [@ EXCEPT !.results = rest]]
    /\ UNCHANGED <<steps, last_call>>
    /\ converge_unchanged

\* reinforce_memory, "Move to front for each cue": the next cue of the call,
\* under the guard of its entry
ConvergeMove(t) ==
    /\ callers[t].pc = "move_to_front"
    /\ LET id == callers[t].id
           key == cue_lower(Head(callers[t].cues))
           rest == Tail(callers[t].cues)
           applied == /\ key \in DOMAIN main.cue_index
                      /\ Contains(main.cue_index[key], id)
       IN  /\ main' = [main EXCEPT !.cue_index =
                          move_to_front_each(@, id, <<Head(callers[t].cues)>>)]
           /\ last_call' =
                 IF applied
                 THEN [last_call EXCEPT
                          !.moved[key] = @ \cup {id},
                          !.last[key] = <<id>>,
                          !.overlapped = @ \/ \E u \in Threads \ {t} :
                                                 callers[u].pc # "idle"]
                 ELSE last_call
           /\ callers' = [callers EXCEPT ![t] =
                 IF rest # <<>> THEN [@ EXCEPT !.cues = rest]
                 ELSE IF callers[t].results # <<>>
                      THEN [pc |-> "auto_reinforce",
                            just_cues |-> callers[t].just_cues,
                            results |-> callers[t].results]
                      ELSE IdleCaller]
    /\ UNCHANGED steps
    /\ converge_unchanged

NextConverge ==
    \E t \in Threads :
       \/ ConvergeReinforce(t)
       \/ ConvergeRecall(t)
       \/ ConvergeAutoReinforce(t)
       \/ ConvergeMove(t)

SpecConverge == InitConverge /\ [][NextConverge]_vars

\* no call is in progress
Quiescent == \A t \in Threads : callers[t].pc = "idle"

\* the ids of items that are not in ids, in the order of items
RECURSIVE NotIn(_, _)
NotIn(items, ids) ==
    IF items = <<>> THEN <<>>
    ELSE IF Head(items) \in ids THEN NotIn(Tail(items), ids)
         ELSE <<Head(items)>> \o NotIn(Tail(items), ids)

\* C26: concurrent reinforcement converges. After any interleaving of
\* reinforce calls on a cue (from the API and from auto-reinforcing recalls)
\* the cue's Ordered Set has exactly the members it had before, each once,
\* the ids that were not reinforced are in the order they were in, and the
\* tail is the id whose move-to-end was applied last
C26_ReinforcementConverges ==
    Quiescent =>
        \A key \in DOMAIN ConvergeEngine.cue_index :
            LET before == ConvergeEngine.cue_index[key]
                after == main.cue_index[key]
            IN  /\ Range(after) = Range(before)
                /\ Len(after) = Cardinality(Range(after))
                /\ NotIn(after, last_call.moved[key])
                      = NotIn(before, last_call.moved[key])
                /\ last_call.last[key] # <<>> =>
                      after[Len(after)] = last_call.last[key][1]

\* two calls that overlapped have moved two ids of "a", and the set is not
\* in the order it was in
C26_Witness ==
    /\ Quiescent
    /\ last_call.overlapped
    /\ Cardinality(last_call.moved[<<"a">>]) >= 2
    /\ main.cue_index[<<"a">>] # ConvergeEngine.cue_index[<<"a">>]

----------------------------------------------------------------------------
(* The calls of one caller on an engine that holds three memories.         *)

InitReinforce ==
    /\ main = ConvergeEngine
    /\ aliases = CueMapEngine_new
    /\ lexicon = CueMapEngine_new
    /\ uuid_seq = 0
    /\ clock = 0
    /\ last_recall = NoRecall
    /\ last_expand = NoExpand
    /\ steps = 0
    /\ mode = "single"
    /\ proc = "running"
    /\ tick = FALSE
    /\ disk = EmptyDisk
    /\ task = NoTasks
    /\ load_report = "empty"
    /\ projects = {}
    /\ signal = "none"
    /\ last_call = NoCall
    /\ reinforce_calls = EmptyMap
    /\ callers = EmptyMap
    /\ queue = <<>>
    /\ worker = IdleWorker
    /\ query_cache = EmptyMap
    /\ read_only = FALSE
    /\ file_hashes = EmptyMap
    /\ tenants = NoTenants
    /\ job_log = NoJobLog

\* the calls on the engine of three memories are followed for
\* MaxReinforceCalls calls
MaxReinforceCalls == 2

ReinforceAdd == steps < MaxReinforceCalls /\ CallAdd

ReinforceUpsert == steps < MaxReinforceCalls /\ CallUpsert

ReinforceAttachCues == steps < MaxReinforceCalls /\ CallAttachCues

ReinforceReinforce == steps < MaxReinforceCalls /\ CallReinforce

ReinforceDelete == steps < MaxReinforceCalls /\ CallDelete

NextReinforce ==
    \/ ReinforceAdd
    \/ ReinforceUpsert
    \/ ReinforceAttachCues
    \/ ReinforceReinforce
    \/ ReinforceDelete

SpecReinforce == InitReinforce /\ [][NextReinforce]_vars

\* C27: reinforce(id, cues) for a present id returns true and, in each
\* listed cue whose Ordered Set holds the id, leaves the id at the tail
\* (reverse-rank 0) and the other ids in the order they were in; for an
\* absent id it returns false and leaves the Memory Store and the Cue Index
\* as they were
C27_ReinforcePostcondition ==
    last_call.op = "reinforce" =>
        LET before == last_call.before
            after  == last_call.after
            id     == last_call.id
        IN  IF id \in DOMAIN before.memories
            THEN /\ last_call.ret = TRUE
                 /\ \A key \in KeysOf(last_call.cues) \cap KeysHolding(before, id) :
                       /\ AtTail(after, key, id)
                       /\ ReverseRank(after.cue_index[key], id) = 0
                       /\ OthersIn(after, key, id) = OthersIn(before, key, id)
            ELSE /\ last_call.ret = FALSE
                 /\ after.memories = before.memories
                 /\ after.cue_index = before.cue_index

\* a reinforce of the oldest of three ids of the cue "a": the two others
\* keep their order behind it
C27_Witness ==
    /\ last_call.op = "reinforce"
    /\ last_call.ret = TRUE
    /\ <<"a">> \in KeysOf(last_call.cues)
    /\ <<"a">> \in DOMAIN last_call.before.cue_index
    /\ Len(last_call.before.cue_index[<<"a">>]) = 3
    /\ last_call.before.cue_index[<<"a">>][1] = last_call.id
    /\ AtTail(last_call.after, <<"a">>, last_call.id)

----------------------------------------------------------------------------
(* The Ordered Sets under the calls that index.                            *)

\* the keys a call of add, upsert or attach_cues indexes its id under: the
\* keys of its cues for an id that is new, and for a present id the keys of
\* the cues the memory did not have yet
IndexedKeys(call) ==
    IF call.id \in DOMAIN call.before.memories
    THEN KeysOf(new_cues_of(call.before.memories[call.id].cues, call.cues))
    ELSE IF call.op = "attach_cues" THEN {}
         ELSE KeysOf(call.cues)

\* C28: no cue's Ordered Set holds the same memory id twice; a call of add,
\* upsert or attach_cues that indexes an id under a cue whose set already
\* holds it moves the id to the tail instead of duplicating it, and a newly
\* added id is at the tail (reverse-rank 0) of each of its non-empty cues
C28_OrderedSetUniqueness ==
    /\ \A key \in DOMAIN main.cue_index :
          Len(main.cue_index[key]) = Cardinality(Range(main.cue_index[key]))
    /\ last_call.op \in {"add", "upsert", "attach_cues"} =>
          \A key \in IndexedKeys(last_call) :
              /\ AtTail(last_call.after, key, last_call.id)
              /\ ReverseRank(last_call.after.cue_index[key], last_call.id) = 0
              /\ OthersIn(last_call.after, key, last_call.id)
                    = OthersIn(last_call.before, key, last_call.id)

\* attach_cues with the cue "A " for a memory that was the older of the two
\* under "a": the id moved to the tail of a set that still has two members
C28_Witness ==
    /\ last_call.op = "attach_cues"
    /\ last_call.cues = << <<"A", " ">> >>
    /\ <<"a">> \in KeysHolding(last_call.before, last_call.id)
    /\ ~AtTail(last_call.before, <<"a">>, last_call.id)
    /\ AtTail(last_call.after, <<"a">>, last_call.id)
    /\ Len(last_call.after.cue_index[<<"a">>]) = 2

----------------------------------------------------------------------------
(* What an auto-reinforcing recall reinforces.                             *)

\* the number of query cues under which id is indexed in e
MatchCount(e, id, query_cues) ==
    Cardinality({k \in 1..Len(query_cues) :
                    LET key == cue_lower(query_cues[k][1])
                    IN  /\ key \in DOMAIN e.cue_index
                        /\ Contains(e.cue_index[key], id)})

\* the memories of e that match a query cue and pass the min_intersection
\* filter, when there is one
Survivors(e, query_cues, min_intersection) ==
    {id \in DOMAIN e.memories :
        /\ MatchCount(e, id, query_cues) >= 1
        /\ min_intersection # <<>> =>
              MatchCount(e, id, query_cues) >= min_intersection[1]}

\* C29: a recall with auto_reinforce reinforces, under the query cues, every
\* candidate that survives the min_intersection filter, those beyond the
\* limit included, and no other memory; the results it returns are those of
\* the same recall without auto_reinforce, scored before the reinforcement
C29_AutoReinforceScope ==
    (last_recall.called /\ last_recall.auto_reinforce) =>
        LET before == last_recall.before
            after  == last_recall.after
            query  == last_recall.query_cues
            kept   == Survivors(before, query, last_recall.min_intersection)
            keys   == {cue_lower(query[k][1]) : k \in 1..Len(query)}
        IN  /\ DOMAIN after.memories = DOMAIN before.memories
            /\ \A id \in kept :
                  after.memories[id].reinforcement_count
                      = before.memories[id].reinforcement_count + 1
            /\ \A id \in DOMAIN before.memories \ kept :
                  after.memories[id] = before.memories[id]
            /\ DOMAIN after.cue_index = DOMAIN before.cue_index
            /\ \A key \in DOMAIN before.cue_index :
                  LET was == before.cue_index[key]
                      is  == after.cue_index[key]
                      n   == Cardinality(Range(was) \cap kept)
                  IN  IF key \in keys
                      THEN /\ Range(is) = Range(was)
                           /\ Len(is) = Len(was)
                           /\ NotIn(is, kept) = NotIn(was, kept)
                           /\ \A i \in (Len(is) - n + 1)..Len(is) : is[i] \in kept
                      ELSE is = was
            /\ Len(last_recall.results) = Min(last_recall.limit, Cardinality(kept))
            /\ \A i \in 1..Len(last_recall.results) :
                  last_recall.results[i].memory_id \in kept
            /\ \E explain \in BOOLEAN :
                  \E out \in recall_weighted(before, query, last_recall.limit,
                                             FALSE, last_recall.min_intersection,
                                             explain, clock) :
                     out.r = last_recall.results

\* an auto-reinforcing recall with limit 1 and min_intersection 2 over two
\* memories that match both query cues and one that matches a single cue:
\* the survivor that is not returned was reinforced too, the third was not
C29_Witness ==
    /\ last_recall.called
    /\ last_recall.auto_reinforce
    /\ last_recall.limit = 1
    /\ last_recall.min_intersection = <<2>>
    /\ Len(last_recall.results) = 1
    /\ Cardinality(Survivors(last_recall.before, last_recall.query_cues,
                             last_recall.min_intersection)) = 2
    /\ Cardinality(DOMAIN last_recall.before.memories) = 3
    /\ \E id \in DOMAIN last_recall.before.memories :
          /\ id # last_recall.results[1].memory_id
          /\ last_recall.after.memories[id].reinforcement_count = 1
    /\ last_recall.after.cue_index # last_recall.before.cue_index

----------------------------------------------------------------------------
(* The order of the jobs. The request handlers and the Ingester send their *)
(* jobs one by one, each send awaited; the Ingester is behind a Mutex that *)
(* its event tasks hold for a whole process_file_path or delete_file_path; *)
(* the one job task receives a job and awaits process_job before it        *)
(* receives the next.                                                      *)

\* SpecFifo follows MaxFifoEvents requests and file events
MaxFifoEvents == 2

InitFifo == InitCount

\* whether a task holds the Mutex of the Ingester
ingester_locked == \E t \in Threads : callers[t].pc = "enqueue" /\ callers[t].ingester

\* the jobs of process_file_path for the chunks of a file: one
\* ExtractAndIngest per chunk, then VerifyFile with the chunks' ids
ingest_jobs(path_norm, chunks) ==
    LET ids == [i \in 1..Len(chunks) |-> chunk_memory_id(path_norm, chunks[i])]
    IN  [i \in 1..Len(chunks) |-> ExtractJob(ids[i], chunks[i], path_norm)]
        \o <<VerifyJob(path_norm, ids)>>

\* POST /memories up to "Enqueue background jobs": the memory is added, the
\* two jobs are still to be sent
FifoAddMemory(t) ==
    /\ callers[t].pc = "idle"
    /\ steps < MaxFifoEvents
    /\ LET accepted  == validate_cues(normalize_cues(TaggedCues))
           memory_id == Uuid(uuid_seq + 1)
       IN  /\ main' = add_memory(main, memory_id, TaggedContent, accepted,
                                 EmptyMap, Now).e
           /\ callers' = [callers EXCEPT ![t] =
                  [pc |-> "enqueue", ingester |-> FALSE,
                   jobs |-> <<TrainJob(memory_id),
                              LlmProposeJob(memory_id, TaggedContent)>>]]
    /\ uuid_seq' = uuid_seq + 1
    /\ steps' = steps + 1
    /\ UNCHANGED <<aliases, lexicon, clock, last_recall, last_expand>>
    /\ UNCHANGED process_vars
    /\ UNCHANGED <<last_call, reinforce_calls, queue, worker, query_cache,
                   read_only, file_hashes, tenants, job_log>>

\* an event task takes the Ingester and runs process_file_path up to "Send
\* to Job Queue": a file whose hash is the one last seen is skipped
FifoProcessFile(t) ==
    /\ callers[t].pc = "idle"
    /\ ~ingester_locked
    /\ steps < MaxFifoEvents
    /\ \E path \in FilePaths, chunks \in FileContents :
          LET path_norm == to_lowercase(path)
              hash      == sha256_hex(join(chunks, <<>>))
          IN  IF path_norm \in DOMAIN file_hashes /\ file_hashes[path_norm] = hash
              THEN UNCHANGED <<file_hashes, callers>>
              ELSE /\ file_hashes' = Put(file_hashes, path_norm, hash)
                   /\ callers' = [callers EXCEPT ![t] =
                          [pc |-> "enqueue", ingester |-> TRUE,
                           jobs |-> ingest_jobs(path_norm, chunks)]]
    /\ steps' = steps + 1
    /\ UNCHANGED <<main, aliases, lexicon, uuid_seq, clock, last_recall,
                   last_expand>>
    /\ UNCHANGED process_vars
    /\ UNCHANGED <<last_call, reinforce_calls, queue, worker, query_cache,
                   read_only, tenants, job_log>>

\* an event task takes the Ingester and runs delete_file_path up to its
\* enqueue
FifoDeleteFile(t) ==
    /\ callers[t].pc = "idle"
    /\ ~ingester_locked
    /\ steps < MaxFifoEvents
    /\ \E path \in FilePaths :
          LET path_norm == to_lowercase(path)
          IN  /\ file_hashes' = Remove(file_hashes, path_norm)
              /\ callers' = [callers EXCEPT ![t] =
                     [pc |-> "enqueue", ingester |-> TRUE,
                      jobs |-> <<VerifyJob(path_norm, <<>>)>>]]
    /\ steps' = steps + 1
    /\ UNCHANGED <<main, aliases, lexicon, uuid_seq, clock, last_recall,
                   last_expand>>
    /\ UNCHANGED process_vars
    /\ UNCHANGED <<last_call, reinforce_calls, queue, worker, query_cache,
                   read_only, tenants, job_log>>

\* JobQueue::enqueue, self.sender.send(job).await: the next job of the
\* caller goes into the buffer once there is a free slot; after its last
\* job the caller returns
FifoSend(t) ==
    /\ callers[t].pc = "enqueue"
    /\ has_capacity(queue)
    /\ queue' = Append(queue, Head(callers[t].jobs))
    /\ job_log' = [job_log EXCEPT !.accepted = Append(@, Head(callers[t].jobs))]
    /\ callers' = [callers EXCEPT ![t] =
                      IF Tail(callers[t].jobs) = <<>> THEN IdleCaller
                      ELSE [@ EXCEPT !.jobs = Tail(callers[t].jobs)]]
    /\ UNCHANGED project_vars
    /\ UNCHANGED process_vars
    /\ UNCHANGED <<last_call, reinforce_calls, worker, query_cache, read_only,
                   file_hashes, tenants>>

\* a receive that takes the job sent last
FifoRecvNewest ==
    /\ worker.pc = "recv"
    /\ queue # <<>>
    /\ worker' = [pc |-> "process_job", job |-> queue[Len(queue)]]
    /\ queue' = SubSeq(queue, 1, Len(queue) - 1)
    /\ job_log' = [job_log EXCEPT !.started = Append(@, queue[Len(queue)])]
    /\ UNCHANGED project_vars
    /\ UNCHANGED process_vars
    /\ UNCHANGED <<last_call, reinforce_calls, callers, query_cache, read_only,
                   file_hashes, tenants>>

\* rx.recv().await of the job task: the oldest job leaves the buffer and
\* process_job starts on it
FifoRecv ==
    /\ worker.pc = "recv"
    /\ queue # <<>>
    /\ worker' = [pc |-> "process_job", job |-> Head(queue)]
    /\ queue' = Tail(queue)
    /\ job_log' = [job_log EXCEPT !.started = Append(@, Head(queue))]
    /\ UNCHANGED project_vars
    /\ UNCHANGED process_vars
    /\ UNCHANGED <<last_call, reinforce_calls, callers, query_cache, read_only,
                   file_hashes, tenants>>

NextFifo ==
    \/ \E t \in Threads : FifoAddMemory(t)
    \/ \E t \in Threads : FifoProcessFile(t)
    \/ \E t \in Threads : FifoDeleteFile(t)
    \/ \E t \in Threads : FifoSend(t)
    \/ FifoRecv
    \/ ProcessTrainLexicon
    \/ ProcessLlmProposeCues
    \/ ProcessExtractAndIngest
    \/ VerifyLookup
    \/ VerifyNext
    \/ VerifyDeleteCue

SpecFifo == InitFifo /\ [][NextFifo]_vars

\* the jobs accepted are the jobs received, in that order, followed by the
\* jobs in the buffer; the job task holds at most the job it received last
FifoOrder ==
    /\ job_log.accepted = job_log.started \o queue
    /\ worker.pc # "recv" =>
          /\ job_log.started # <<>>
          /\ worker.job = job_log.started[Len(job_log.started)]

\* a job starts when the job task is back at recv, the job before it being
\* over, and it is the oldest job accepted that has not started
StartsAfterFinish ==
    job_log'.started # job_log.started =>
        /\ worker.pc = "recv"
        /\ worker'.pc = "process_job"
        /\ Len(job_log.started) < Len(job_log.accepted)
        /\ job_log'.started =
              Append(job_log.started,
                     job_log.accepted[Len(job_log.started) + 1])

\* C30: single-consumer FIFO. The jobs are processed in exactly the order
\* enqueue accepted them, one at a time, a job starting only after the job
\* before it has finished; a VerifyFile enqueued after the ExtractAndIngest
\* jobs of a file therefore runs after all of them
C30_SingleConsumerFifo == []FifoOrder /\ [][StartsAfterFinish]_vars

\* the VerifyFile of a file of two chunks has started after the two
\* ExtractAndIngest jobs of the file, with jobs of a request accepted between
\* the jobs of the file
C30_Witness ==
    /\ \E i \in 1..Len(job_log.started) :
          /\ job_log.started[i].kind = "VerifyFile"
          /\ Len(job_log.started[i].valid_memory_ids) = 2
          /\ Cardinality({j \in 1..(i - 1) :
                            job_log.started[j].kind = "ExtractAndIngest"}) = 2
          /\ \E j \in 1..(i - 1) :
                job_log.started[j].kind = "TrainLexiconFromMemory"
    /\ worker.pc = "recv"

----------------------------------------------------------------------------
(* get_or_create_project from several threads. The call reads the map, and *)
(* for an absent id builds a new context and inserts it: the read guard is *)
(* gone before the insert, so the two are steps of their own. A thread     *)
(* keeps the Arc it was given for the rest of its request.                 *)

\* SpecCreate follows MaxCreateEvents requests
MaxCreateEvents == 3

InitCreate == InitTenants

\* what SpecCreate leaves alone
create_unchanged ==
    /\ UNCHANGED <<main, aliases, lexicon, clock, last_recall, last_expand>>
    /\ UNCHANGED process_vars
    /\ UNCHANGED <<reinforce_calls, queue, worker, query_cache, read_only,
                   file_hashes, job_log>>

\* get_or_create_project, self.projects.get(&project_id): a present id
\* returns its Arc; for an absent one the thread builds a context of its own
CreateGet(t) ==
    /\ callers[t].pc = "idle"
    /\ steps < MaxCreateEvents
    /\ \E project_id \in TenantIds :
          LET found == MultiTenantEngine_get_project(tenants, project_id)
              ctx   == Arc_new(tenants)
          IN  IF found # <<>>
              THEN /\ callers' = [callers EXCEPT ![t] =
                          [pc |-> "handler", project_id |-> project_id,
                           arc |-> found[1]]]
                   /\ UNCHANGED tenants
              ELSE /\ callers' = [callers EXCEPT ![t] =
                          [pc |-> "insert", project_id |-> project_id,
                           arc |-> ctx]]
                   /\ tenants' = [tenants EXCEPT !.contexts =
                                     Put(@, ctx, ProjectContext_new)]
    /\ steps' = steps + 1
    /\ UNCHANGED <<uuid_seq, last_call>>
    /\ create_unchanged

\* get_or_create_project, self.projects.insert(project_id, ctx.clone()): the
\* entry of the id is set to the thread's context, whatever it held
CreateInsert(t) ==
    /\ callers[t].pc = "insert"
    /\ tenants' = [tenants EXCEPT !.projects =
                      Put(@, callers[t].project_id, callers[t].arc)]
    /\ callers' = [callers EXCEPT ![t].pc = "handler"]
    /\ UNCHANGED <<uuid_seq, steps, last_call>>
    /\ create_unchanged

\* add_memory_mt with the Arc it was given: the memory is added to the main
\* engine of the context behind the Arc, and the request is over
CreateAddMemory(t) ==
    /\ callers[t].pc = "handler"
    /\ LET arc == callers[t].arc
           ctx == tenants.contexts[arc]
           id  == Uuid(uuid_seq + 1)
           out == add_memory(ctx.main, id, "x", << <<"a">> >>, EmptyMap, Now)
       IN  /\ tenants' = store_through(tenants, arc, [ctx EXCEPT !.main = out.e])
           /\ last_call' = [op |-> "add_memory_mt",
                            project |-> callers[t].project_id,
                            arc |-> arc, id |-> id]
    /\ uuid_seq' = uuid_seq + 1
    /\ callers' = [callers EXCEPT ![t] = IdleCaller]
    /\ UNCHANGED steps
    /\ create_unchanged

NextCreate ==
    \E t \in Threads :
       \/ CreateGet(t)
       \/ CreateInsert(t)
       \/ CreateAddMemory(t)

SpecCreate == InitCreate /\ [][NextCreate]_vars

\* the threads that hold an Arc returned for a project id
HandleHolders(project_id) ==
    {t \in Threads : callers[t].pc = "handler"
                     /\ callers[t].project_id = project_id}

\* C31: one Project per id. Every get_or_create call for an id, concurrent
\* first calls included, returns a handle to the same Project: the handles
\* held for an id are the Arc the map holds for it, and the memory a request
\* wrote through its handle is in the Project the map holds for the id
C31_OneProjectPerId ==
    /\ \A project_id \in TenantIds :
          \A t \in HandleHolders(project_id) :
              /\ project_id \in DOMAIN tenants.projects
              /\ callers[t].arc = tenants.projects[project_id]
    /\ last_call.op = "add_memory_mt" =>
          /\ last_call.project \in DOMAIN tenants.projects
          /\ last_call.id \in DOMAIN
                tenants.contexts[tenants.projects[last_call.project]].main.memories

----------------------------------------------------------------------------
(* The guards a recall and an attach_cues hold. consolidated_search keeps  *)
(* the Ref of every query cue it found (cue_data) until it returns, and    *)
(* score_consolidated_candidates, called inside it, reads each candidate   *)
(* with memories.get; attach_cues keeps the RefMut of the memory while it  *)
(* takes the entry of each new cue. A Ref holds the read lock of its       *)
(* shard, a RefMut and an entry() the write lock.                          *)

\* SpecLocks follows MaxLockCalls calls
MaxLockCalls == 2

\* the cue lists attach_cues is called with: a new cue that is indexed under
\* "a", and a cue nobody has
LockCueLists == {<< <<"A", " ">> >>, << <<"c">> >>}

\* the queries of the recalls
LockQueries == {<< <<<<"a">>, Scale>> >>, << <<<<"b">>, Scale>>, <<<<"a">>, Scale>> >>}

InitLocks == InitConverge

\* the keys of the Cue Index whose shard a thread other than t holds a read
\* lock of
read_locked_by_others(t) ==
    UNION {callers[u].guards : u \in {v \in Threads \ {t} : callers[v].pc = "score"}}

\* the memories a thread other than t holds the RefMut of
write_locked_memories(t) ==
    {callers[u].id : u \in {v \in Threads \ {t} : callers[v].pc = "index"}}

\* what SpecLocks leaves alone
locks_unchanged ==
    /\ UNCHANGED <<aliases, lexicon, uuid_seq, clock, last_recall, last_expand>>
    /\ UNCHANGED process_vars
    /\ UNCHANGED <<last_call, reinforce_calls, queue, worker, query_cache,
                   read_only, file_hashes, tenants, job_log>>

\* consolidated_search, steps 1 to 4: the Refs of the query cues are taken
\* and kept, the candidates are collected
LockSearch(t) ==
    /\ callers[t].pc = "idle"
    /\ steps < MaxLockCalls
    /\ \E query \in LockQueries :
          LET cues == normalize_query_cues(main, query)
              cue_data == gather_cue_data(main, cues)
              candidates == scan_cues(cue_data, 1,
                                [seen |-> {}, candidates |-> <<>>]).candidates
          IN  callers' = [callers EXCEPT ![t] =
                 IF cue_data = <<>> THEN IdleCaller
                 ELSE [pc |-> "score",
                       guards |-> {determine_shard(cue_data[i][1]) :
                                      i \in 1..Len(cue_data)},
                       candidates |-> [i \in 1..Len(candidates) |->
                                          candidates[i][1]]]]
    /\ steps' = steps + 1
    /\ UNCHANGED main
    /\ locks_unchanged

\* score_consolidated_candidates, one candidate: self.memories.get waits
\* while another thread holds the RefMut of the memory; after the last
\* candidate the search returns and its Refs are dropped
LockScore(t) ==
    /\ callers[t].pc = "score"
    /\ callers[t].candidates # <<>> =>
          Head(callers[t].candidates) \notin write_locked_memories(t)
    /\ callers' = [callers EXCEPT ![t] =
                      IF Len(callers[t].candidates) <= 1 THEN IdleCaller
                      ELSE [@ EXCEPT !.candidates = Tail(@)]]
    /\ UNCHANGED <<main, steps>>
    /\ locks_unchanged

\* attach_cues, steps 1 to 3: the RefMut of the memory is taken and kept,
\* the new cues are added to memory.cues
LockAttach(t) ==
    /\ callers[t].pc = "idle"
    /\ steps < MaxLockCalls
    /\ \E id \in ConvergeIds \cup {AbsentId}, cues \in LockCueLists :
          /\ id \notin write_locked_memories(t)
          /\ IF id \in DOMAIN main.memories
             THEN LET new_cues == new_cues_of(main.memories[id].cues, cues)
                  IN  IF new_cues = <<>>
                      THEN UNCHANGED <<main, callers>>
                      ELSE /\ main' = [main EXCEPT !.memories[id].cues =
                                          @ \o new_cues]
                           /\ callers' = [callers EXCEPT ![t] =
                                  [pc |-> "index", id |-> id,
                                   cues |-> new_cues]]
             ELSE UNCHANGED <<main, callers>>
    /\ steps' = steps + 1
    /\ locks_unchanged

\* attach_cues, step 4, one new cue: cue_index.entry waits while another
\* thread holds a Ref into the shard of the cue; after the last cue the
\* RefMut of the memory is dropped
LockIndex(t) ==
    /\ callers[t].pc = "index"
    /\ LET key == cue_lower(Head(callers[t].cues))
       IN  /\ key # <<>> => determine_shard(key) \notin read_locked_by_others(t)
           /\ main' = [main EXCEPT !.cue_index =
                          index_by_cues(@, callers[t].id,
                                        <<Head(callers[t].cues)>>)]
    /\ callers' = [callers EXCEPT ![t] =
                      IF Len(callers[t].cues) <= 1 THEN IdleCaller
                      ELSE [@ EXCEPT !.cues = Tail(@)]]
    /\ UNCHANGED steps
    /\ locks_unchanged

NextLocks ==
    \E t \in Threads :
       \/ LockSearch(t)
       \/ LockScore(t)
       \/ LockAttach(t)
       \/ LockIndex(t)

SpecLocks == InitLocks /\ [][NextLocks]_vars

\* a recall holds the Ref of a cue and waits for a memory whose RefMut an
\* attach_cues holds, which waits for the entry of that cue
LockCycle(r, w) ==
    /\ callers[r].pc = "score"
    /\ callers[w].pc = "index"
    /\ callers[r].candidates # <<>>
    /\ Head(callers[r].candidates) = callers[w].id
    /\ determine_shard(cue_lower(Head(callers[w].cues))) \in callers[r].guards

\* C32: deadlock freedom of reads against writes. No state is reachable in
\* which a recall holds a Cue Index lock while waiting for a Memory Store
\* lock and a concurrent attach_cues holds that Memory Store lock while
\* waiting for that Cue Index lock
C32_NoReadWriteDeadlock ==
    \A r, w \in Threads : ~LockCycle(r, w)

----------------------------------------------------------------------------
(* upsert_memory_with_id against delete_memory. delete_memory takes the    *)
(* memory out of the store and then removes the id from the set of each    *)
(* of its cues, one get_mut at a time; the new-id branch of upsert inserts *)
(* into the store and then indexes, as above.                              *)

InitRace == InitCount

\* delete_memory, self.memories.remove: an absent id returns false; a
\* present memory leaves the store and its cues are still to be removed
RaceDeleteRemove(t) ==
    /\ callers[t].pc = "idle"
    /\ steps < MaxVisibleEvents
    /\ \E id \in KeyIds :
          IF id \in DOMAIN main.memories
          THEN /\ main' = [main EXCEPT !.memories = Remove(@, id)]
               /\ callers' = [callers EXCEPT ![t] =
                      IF main.memories[id].cues = <<>> THEN IdleCaller
                      ELSE [pc |-> "remove", op |-> "delete", id |-> id,
                            cues |-> main.memories[id].cues]]
          ELSE UNCHANGED <<main, callers>>
    /\ steps' = steps + 1
    /\ UNCHANGED <<uuid_seq, last_call>>
    /\ visible_unchanged

\* delete_memory, "Remove from cue index": the next cue of the memory, when
\* the index has an entry for it; true is returned after the last one
RaceDeleteCue(t) ==
    /\ callers[t].pc = "remove"
    /\ main' = [main EXCEPT !.cue_index =
                    remove_from_each(@, callers[t].id, <<Head(callers[t].cues)>>)]
    /\ callers' = [callers EXCEPT ![t] =
                      IF Tail(callers[t].cues) = <<>> THEN IdleCaller
                      ELSE [@ EXCEPT !.cues = Tail(callers[t].cues)]]
    /\ UNCHANGED <<uuid_seq, steps, last_call>>
    /\ visible_unchanged

NextRace ==
    \E t \in Threads :
       \/ VisibleUpsertStore(t)
       \/ VisibleIndex(t)
       \/ RaceDeleteRemove(t)
       \/ RaceDeleteCue(t)

SpecRace == InitRace /\ [][NextRace]_vars

\* C33: no dangling references under races. Once an upsert of an absent id
\* and a concurrent delete of that id have both returned, the id is a member
\* of a cue's Ordered Set only if the memory is in the Memory Store
C33_NoDanglingAfterRace ==
    Quiescent =>
        \A key \in DOMAIN main.cue_index :
            Range(main.cue_index[key]) \subseteq DOMAIN main.memories

----------------------------------------------------------------------------
(* The job task and the jobs it has taken.                                 *)

\* the job task is inside process_job
InsideJob == worker.pc # "recv"

\* C34: job consumer liveness. Every job taken from the queue finishes,
\* whatever its kind and the state it finds: the job task, once inside
\* process_job, is back at rx.recv() later on, so that it never blocks
\* forever inside a job
C34_JobConsumerLiveness == InsideJob ~> ~InsideJob

----------------------------------------------------------------------------
(* save_state (src/src/persistence.rs) beside running writers. save_state  *)
(* collects the memories map first and the cue index after it; the writers *)
(* take the steps described above (store, then one cue at a time).         *)

InitSave ==
    /\ main = CueMapEngine_new
    /\ aliases = CueMapEngine_new
    /\ lexicon = CueMapEngine_new
    /\ uuid_seq = 0
    /\ clock = 0
    /\ last_recall = NoRecall
    /\ last_expand = NoExpand
    /\ steps = 0
    /\ mode = "single"
    /\ proc = "running"
    /\ tick = FALSE
    /\ disk = EmptyDisk
    /\ task = [NoTasks EXCEPT !.periodic = IdleTask("waiting")]
    /\ load_report = "empty"
    /\ projects = {}
    /\ signal = "none"
    /\ last_call = NoCall
    /\ reinforce_calls = EmptyMap
    /\ callers = [t \in Threads |-> IdleCaller]
    /\ queue = <<>>
    /\ worker = IdleWorker
    /\ query_cache = EmptyMap
    /\ read_only = FALSE
    /\ file_hashes = EmptyMap
    /\ tenants = NoTenants
    /\ job_log = NoJobLog

\* what the steps of save_state leave alone
save_unchanged ==
    /\ UNCHANGED project_vars
    /\ UNCHANGED <<mode, proc, tick, disk, load_report, projects, signal>>
    /\ UNCHANGED service_vars

\* save_state, memories_map: the memories are collected
SaveMemories ==
    /\ task.periodic.pc \in {"waiting", "saved"}
    /\ task' = [task EXCEPT !.periodic =
                   [IdleTask("cue_index") EXCEPT
                       !.data = [NoState EXCEPT !.memories = main.memories]]]
    /\ save_unchanged

\* save_state, cue_index_map: the cue lists are collected and the
\* PersistedState is built
SaveCueIndex ==
    /\ task.periodic.pc = "cue_index"
    /\ task' = [task EXCEPT !.periodic =
                   [IdleTask("saved") EXCEPT
                       !.data = [persisted_state(main, Now) EXCEPT
                                    !.memories = task.periodic.data.memories]]]
    /\ save_unchanged

NextSave ==
    \/ \E t \in Threads : VisibleAddStore(t)
    \/ \E t \in Threads : VisibleUpsertStore(t)
    \/ \E t \in Threads : VisibleIndex(t)
    \/ \E t \in Threads : RaceDeleteRemove(t)
    \/ \E t \in Threads : RaceDeleteCue(t)
    \/ SaveMemories
    \/ SaveCueIndex

SpecSave == InitSave /\ [][NextSave]_vars

\* every id of a saved cue list is a key of the saved memories
SavedListsKnown(state) ==
    \A cue \in DOMAIN state.cue_index :
        Range(state.cue_index[cue]) \subseteq DOMAIN state.memories

\* every saved memory is in the saved list of each of its cues
SavedMemoriesListed(state) ==
    \A id \in DOMAIN state.memories :
        \A cue \in Range(state.memories[id].cues) :
            /\ cue \in DOMAIN state.cue_index
            /\ id \in Range(state.cue_index[cue])

\* C35: snapshot self-consistency under concurrent writes. A snapshot saved
\* while add, upsert and delete calls run is index-consistent on its own:
\* every id of a saved cue list is a key of the saved memories map, and
\* every saved memory is in the saved list of each of its cues
C35_SnapshotSelfConsistent ==
    task.periodic.pc = "saved" =>
        /\ SavedListsKnown(task.periodic.data)
        /\ SavedMemoriesListed(task.periodic.data)

----------------------------------------------------------------------------
(* The cue keys under reinforce.                                           *)

\* the members of every Ordered Set of engine e, by cue key
Membership(e) == [key \in DOMAIN e.cue_index |-> Range(e.cue_index[key])]

\* C36: reinforce does not grow the index. reinforce(id, cues) changes
\* neither the set of cue keys of the Cue Index nor the members of any
\* Ordered Set: stats().total_cues and every set's members are after the
\* call what they were before it, also for a cue that is not in the index
\* or under which the id is not indexed
C36_ReinforceKeepsIndexKeys ==
    last_call.op = "reinforce" =>
        /\ DOMAIN last_call.after.cue_index = DOMAIN last_call.before.cue_index
        /\ get_stats(last_call.after).total_cues
              = get_stats(last_call.before).total_cues
        /\ Membership(last_call.after) = Membership(last_call.before)

----------------------------------------------------------------------------
(* Match counting when a cue occurs more than once in the query.           *)

\* the number of distinct query cues under which id is indexed in engine e
DistinctMatchCount(e, id, query_cues) ==
    Cardinality({key \in {cue_lower(query_cues[k][1]) : k \in 1..Len(query_cues)} :
                    /\ key \in DOMAIN e.cue_index
                    /\ Contains(e.cue_index[key], id)})

\* C37: match counting with repeated cues. For every result of a recall,
\* intersection_count is the number of distinct query cues under which the
\* memory is indexed, also when a cue occurs more than once in the weighted
\* query: a cue listed twice does not let a memory indexed under one cue
\* pass min_intersection = 2
C37_DistinctMatchCounting ==
    last_recall.called =>
        \A i \in 1..Len(last_recall.results) :
            LET res == last_recall.results[i]
                distinct == DistinctMatchCount(last_recall.before, res.memory_id,
                                               last_recall.query_cues)
            IN  /\ res.intersection_count = distinct
                /\ last_recall.min_intersection # <<>> =>
                      distinct >= last_recall.min_intersection[1]

----------------------------------------------------------------------------
(* The order an auto-reinforcing recall leaves its survivors in.           *)

\* the items that are in ids, in the order of items
OnlyIn(items, ids) == NotIn(items, Range(items) \ ids)

\* the ids of the sets of keys in the order the search comes to them: the
\* set of the first key most recent first, then from the set of each later
\* key the ids not met before, most recent first
RECURSIVE FoundOrder(_, _, _)
FoundOrder(e, keys, found) ==
    IF keys = <<>> THEN found
    ELSE FoundOrder(e, Tail(keys),
                    found \o NotIn(Reverse(e.cue_index[Head(keys)]), Range(found)))

\* the keys of a weighted query that are keys of the index of e, in query order
QueryKeys(e, query_cues) ==
    LET cues == normalize_query_cues(e, query_cues)
    IN  [i \in 1..Len(cues) |-> cues[i][1]]

\* C38 as stated: a recall with auto_reinforce leaves the memories it
\* reinforces in the relative order they had within each query cue's
\* Ordered Set
C38_RepeatableRanking ==
    (last_recall.called /\ last_recall.auto_reinforce) =>
        LET kept == Survivors(last_recall.before, last_recall.query_cues,
                              last_recall.min_intersection)
        IN  \A key \in Range(QueryKeys(last_recall.before, last_recall.query_cues)) :
               OnlyIn(last_recall.after.cue_index[key], kept)
                   = OnlyIn(last_recall.before.cue_index[key], kept)

\* C38 (amended): a recall with auto_reinforce leaves the memories it
\* reinforces, within each query cue's Ordered Set, in the order in which
\* the search found them (most recent first in the first query cue's set,
\* then the ids first met in the next cue's set, and so on); within the
\* first query cue's set that is the reverse of the relative order they had
C38_AutoReinforceReordersSurvivors ==
    (last_recall.called /\ last_recall.auto_reinforce) =>
        LET before == last_recall.before
            after  == last_recall.after
            kept   == Survivors(before, last_recall.query_cues,
                                last_recall.min_intersection)
            keys   == QueryKeys(before, last_recall.query_cues)
            found  == FoundOrder(before, keys, <<>>)
        IN  /\ \A key \in Range(keys) :
                  OnlyIn(after.cue_index[key], kept)
                      = OnlyIn(found, kept \cap Range(before.cue_index[key]))
            /\ keys # <<>> =>
                  OnlyIn(after.cue_index[keys[1]], kept)
                      = Reverse(OnlyIn(before.cue_index[keys[1]], kept))

\* an auto-reinforcing recall on two cues reinforced three memories; two of
\* them were under the second cue and changed places there
C38_Witness ==
    /\ last_recall.called
    /\ last_recall.auto_reinforce
    /\ Len(QueryKeys(last_recall.before, last_recall.query_cues)) = 2
    /\ Cardinality(Survivors(last_recall.before, last_recall.query_cues,
                             last_recall.min_intersection)) = 3
    /\ LET key == QueryKeys(last_recall.before, last_recall.query_cues)[2]
       IN  /\ Len(last_recall.before.cue_index[key]) = 2
           /\ last_recall.after.cue_index[key]
                 = Reverse(last_recall.before.cue_index[key])

----------------------------------------------------------------------------
(* delete_project on a multi-tenant server with a snapshots directory: the *)
(* shutdown handler saves every project the store holds, and the next      *)
(* start loads every snapshot of the directory.                            *)

InitDurable ==
    /\ main = CueMapEngine_new
    /\ aliases = CueMapEngine_new
    /\ lexicon = CueMapEngine_new
    /\ uuid_seq = 0
    /\ clock = 0
    /\ last_recall = NoRecall
    /\ last_expand = NoExpand
    /\ steps = 0
    /\ mode = "multi"
    /\ proc = "down"
    /\ tick = FALSE
    /\ disk = EmptyDisk
    /\ task = NoTasks
    /\ load_report = "empty"
    /\ projects = {}
    /\ signal = "none"
    /\ last_call = NoCall
    /\ reinforce_calls = EmptyMap
    /\ callers = EmptyMap
    /\ queue = <<>>
    /\ worker = IdleWorker
    /\ query_cache = EmptyMap
    /\ read_only = FALSE
    /\ file_hashes = EmptyMap
    /\ tenants = NoTenants
    /\ job_log = NoJobLog

\* api::delete_project, MultiTenantEngine::delete_project: the entry of the
\* project is removed from the map, and its context goes with it
DurableDeleteProject ==
    /\ proc = "running"
    /\ \E project_id \in {ProjectId, "q"} :
          LET deleted == project_id \in projects
          IN  /\ projects' = projects \ {project_id}
              /\ main' = IF deleted THEN CueMapEngine_new ELSE main
              /\ aliases' = IF deleted THEN CueMapEngine_new ELSE aliases
              /\ lexicon' = IF deleted THEN CueMapEngine_new ELSE lexicon
              /\ last_call' = [op |-> "delete_project", project |-> project_id,
                               ret |-> deleted, writes |-> steps,
                               before |-> projects, after |-> projects \ {project_id}]
    /\ UNCHANGED <<uuid_seq, clock, last_recall, last_expand, steps, mode, proc,
                   tick, disk, task, load_report, signal>>
    /\ UNCHANGED <<reinforce_calls, callers, queue, worker, query_cache,
                   read_only, file_hashes, tenants, job_log>>

\* save_all of the shutdown handler: the projects the map holds when it runs
\* are saved, and a map without a project leaves the directory as it is
DurableSaveAll ==
    /\ task.shutdown.pc = "capture"
    /\ IF projects = {}
       THEN /\ task' = [task EXCEPT !.shutdown.pc = "exit"]
            /\ UNCHANGED <<project_vars, mode, proc, tick, disk, load_report,
                           projects, signal>>
            /\ UNCHANGED service_vars
       ELSE Capture("shutdown")

NextDurable ==
    \/ Boot
    \/ SnapAdd
    \/ DurableDeleteProject
    \/ ReceiveSignal
    \/ DurableSaveAll
    \/ Create("shutdown")
    \/ Write("shutdown")
    \/ Rename("shutdown")
    \/ Exit

SpecDurable == InitDurable /\ [][NextDurable]_vars

\* C39: project deletion is durable. After delete_project(id) returned true
\* the project is not among the projects of the store, also after a restart
\* that loaded the snapshots directory, as long as no later write created it
\* again; delete_project on an unknown id returns false and changes nothing
C39_DeleteProjectDurable ==
    last_call.op = "delete_project" =>
        IF last_call.ret
        THEN (proc = "running" /\ steps = last_call.writes) =>
                 last_call.project \notin projects
        ELSE last_call.after = last_call.before

----------------------------------------------------------------------------
(* What a recall without auto_reinforce leaves behind.                     *)

\* C40: recall is read-only without auto-reinforce. recall_weighted with
\* auto_reinforce = false, and recall with auto_reinforce = false on the
\* engine as it is, leave the Memory Store and the Cue Index as they were:
\* no memory's content, cues, timestamps or reinforcement counter, no
\* Ordered Set's members or order and no cue key changes
C40_RecallReadOnly ==
    /\ (last_recall.called /\ ~last_recall.auto_reinforce) =>
          /\ last_recall.after.memories = last_recall.before.memories
          /\ last_recall.after.cue_index = last_recall.before.cue_index
    /\ \A query_cues \in RecallCueLists :
          \A out \in recall(main, query_cues, Cardinality(DOMAIN main.memories),
                             FALSE, clock) :
             out.e = main

\* a recall without auto_reinforce over two cues returned the two memories
\* of an engine, one of which had been reinforced before
C40_Witness ==
    /\ last_recall.called
    /\ ~last_recall.auto_reinforce
    /\ Len(last_recall.results) = 2
    /\ Len(QueryKeys(last_recall.before, last_recall.query_cues)) = 2
    /\ \E id \in DOMAIN last_recall.before.memories :
          last_recall.before.memories[id].reinforcement_count > 0
    /\ last_recall.after = last_recall.before

====
